---- MODULE Spec2Model ----
(***************************************************************************)
(* A model of kurikka: the battle/economy simulation state (GameState,     *)
(* src-tauri/src/game.rs), the progress synchronisation client             *)
(* (src-tauri/src/multiplayer.rs and the commands of src-tauri/src/lib.rs) *)
(* and the remote profile store (multiplayer-server/src/main.rs).          *)
(***************************************************************************)
EXTENDS Integers, Sequences, FiniteSets, TLC

VARIABLES
    game,               \* GameState behind Arc<Mutex<GameState>>
    saved,              \* the snapshot file game_state.json (last persist_state)
    ret,                \* what the last command or handler returned
    prev,               \* GameState as it was when the last command was issued
    before,             \* client and store as they were before the last step
    cmds,               \* number of commands issued on this device so far
    others,             \* number of requests other devices have sent so far
    server_url,         \* MultiplayerClient.server_url
    player_info,        \* MultiplayerClient.player_info (Option<PlayerInfo>)
    last_remote_update, \* MultiplayerClient.last_remote_update (Option<i64>)
    inflight,           \* HTTP responses on their way back to the client
    sent,               \* number of HTTP requests the client has sent
    players,            \* ServerState.players: player_id -> PlayerProfile
    name_index,         \* ServerState.name_index: lower_name -> player_id
    files,              \* data/players/<id>.json on the server's disk
    pending,            \* handlers that released the store lock and still have to save_profile
    now,                \* the server's clock, Utc::now().timestamp()
    ticks,              \* number of iterations the game loop has made so far
    issued,             \* the ids units were given so far, in the order given
    lock,               \* who holds the Mutex<GameState>: nobody, the loop or a command
    pc,                 \* where the command under way stands
    loop,               \* where the game loop thread stands, and the inputs it took
    counter,            \* InputCounter behind Arc<Mutex<InputCounter>>
    pressed             \* the inputs the hook has recorded so far

vars == <<game, saved, ret, prev, before, cmds, others, server_url, player_info, last_remote_update,
          inflight, sent, players, name_index, files, pending, now, ticks, issued,
          lock, pc, loop, counter, pressed>>

gameVars == <<game, saved, prev>>
clientVars == <<server_url, player_info, last_remote_update, inflight, sent>>
serverVars == <<players, name_index, files, pending, now>>
lockVars == <<lock, pc>>
loopVars == <<loop, counter, pressed>>
battleVars == <<ticks, issued, lockVars, loopVars>>

\* Option<T>: None is the empty set, Some(x) the set of x alone.
None == {}
Some(x) == {x}
Get(opt) == CHOOSE x \in opt : TRUE

\* The mutex with no holder, and no synchronization command under way.
Free == "free"
Idle == [op |-> "", at |-> "idle", body |-> None]

\* The loop thread in thread::sleep, and InputCounter::new()
Sleeping == [at |-> "sleep", clicks |-> 0, types |-> 0]
NoInputs == [clicks |-> 0, types |-> 0]

\* The `_` arm of a match on (upgrade_type, unit_type): no counter.
NoCounter == "none"

(***************************************************************************)
(* Bounds of the model.                                                    *)
(***************************************************************************)
MaxCmds == 3        \* commands issued in one run of the economy
MaxLocal == 3       \* synchronisation commands this device issues in one run
MaxOther == 1       \* pushes of another device while this device synchronises
MaxStoreReqs == 3   \* requests the store handles in one run of the store alone
MaxClock == 1       \* the server clock runs 0..MaxClock
MaxInflight == 1    \* requests being handled or answered at one time

(***************************************************************************)
(* f32 arithmetic.  A finite f32 is [m, e] with value m * 2^e, where m = 0 *)
(* (zero) or 2^23 <= m < 2^24 (a normal number's 24-bit significand).      *)
(* Only positive normal values arise in what is modelled here; products    *)
(* are rounded to nearest, ties to even, as IEEE 754 prescribes.           *)
(***************************************************************************)
Pow2(n) == 2 ^ n

TwoP12 == Pow2(12)
TwoP22 == Pow2(22)
TwoP23 == Pow2(23)
TwoP24 == Pow2(24)

RECURSIVE F32Norm(_, _)
F32Norm(m, e) ==
    IF m = 0 THEN [m |-> 0, e |-> 0]
    ELSE IF m < TwoP23 THEN F32Norm(2 * m, e - 1)
    ELSE [m |-> m, e |-> e]

\* An integer literal n.0 with 0 <= n < 2^24 (exact).
F32FromInt(n) == F32Norm(n, 0)

\* The f32 nearest to the decimal literal num/den, for 1 <= num/den < 2.
F32Lit(num, den) ==
    LET scaled == num * TwoP23
        q == scaled \div den
        r == scaled % den
        up == (2 * r > den) \/ (2 * r = den /\ q % 2 = 1)
    IN  [m |-> IF up THEN q + 1 ELSE q, e |-> -23]

\* The significand r at exponent ex, renormalised if rounding carried it
\* to 2^24.
MulCarried(r, ex) ==
    IF r = TwoP24 THEN [m |-> TwoP23, e |-> ex + 1]
    ELSE [m |-> r, e |-> ex]

\* mant + rem / (2 * half) rounded to an integer, ties to even.
MulNearest(mant, rem, half, ex) ==
    MulCarried(IF (rem > half) \/ (rem = half /\ mant % 2 = 1)
               THEN mant + 1 ELSE mant,
               ex)

\* The 48-bit product hi * 2^24 + low cut to 24 bits.
MulRounded(hi, low, e) ==
    IF hi >= TwoP23
    THEN MulNearest(hi, low, TwoP23, e + 24)
    ELSE MulNearest(2 * hi + (low \div TwoP23), low % TwoP23, TwoP22, e + 23)

\* The product from its partial sums: high limbs, middle sum, low 12 bits.
MulSummed(high, mid, low, e) ==
    MulRounded(high + (mid \div TwoP12), (mid % TwoP12) * TwoP12 + low, e)

\* The product of the significands ah * 2^12 + al and bh * 2^12 + bl.
MulLimbs(ah, al, bh, bl, e) ==
    MulSummed(ah * bh,
              ah * bl + al * bh + ((al * bl) \div TwoP12),
              (al * bl) % TwoP12,
              e)

\* a * b for positive normal a, b: the exact 48-bit product of the
\* significands, computed in 12-bit limbs, rounded to 24 bits.
F32Mul(a, b) ==
    IF a.m = 0 \/ b.m = 0 THEN [m |-> 0, e |-> 0]
    ELSE MulLimbs(a.m \div TwoP12, a.m % TwoP12,
                  b.m \div TwoP12, b.m % TwoP12,
                  a.e + b.e)

\* a < b for non-negative a, b.
F32Lt(a, b) ==
    IF a.m = 0 THEN b.m > 0
    ELSE IF b.m = 0 THEN FALSE
    ELSE a.e < b.e \/ (a.e = b.e /\ a.m < b.m)

\* f32::powi(a, b) for b >= 0: the square-and-multiply loop of the
\* powi intrinsic's library routine.
RECURSIVE PowiLoop(_, _, _)
PowiLoop(a, b, r) ==
    LET r2 == IF b % 2 = 1 THEN F32Mul(r, a) ELSE r
        b2 == b \div 2
    IN  IF b2 = 0 THEN r2 ELSE PowiLoop(F32Mul(a, a), b2, r2)

F32Powi(a, b) == PowiLoop(a, b, F32FromInt(1))

\* `x as u32` for x >= 0 below 2^31: truncation toward zero.
F32AsU32(x) ==
    IF x.m = 0 THEN 0
    ELSE IF x.e >= 0 THEN x.m * Pow2(x.e)
    ELSE IF x.e <= -24 THEN 0
    ELSE x.m \div Pow2(-x.e)

(***************************************************************************)
(* Signed f32 arithmetic for the battlefield: here m may be negative, with *)
(* 2^23 <= |m| < 2^24 or m = 0.  The values of the simulation stay within  *)
(* the normal range, so no infinity, NaN or subnormal number is modelled.  *)
(***************************************************************************)
Abs(n) == IF n < 0 THEN -n ELSE n
Sign(n) == IF n < 0 THEN -1 ELSE 1

F32Neg(a) == [m |-> -a.m, e |-> a.e]
F32Abs(a) == [m |-> Abs(a.m), e |-> a.e]

\* The number of bits of n above the 24 an f32 keeps, for 0 <= n < 2^31.
RECURSIVE ExtraBits(_)
ExtraBits(n) == IF n < TwoP24 THEN 0 ELSE 1 + ExtraBits(n \div 2)

\* x with the sign given.
Signed(sign, x) == [m |-> sign * x.m, e |-> x.e]

\* The significand qq at exponent e, renormalised if rounding carried it
\* to 2^24.
Carried(sign, qq, e) ==
    IF qq = TwoP24 THEN [m |-> sign * TwoP23, e |-> e + 1]
    ELSE Signed(sign, F32Norm(qq, e))

\* q + r / unit rounded to an integer, ties to even (unit a power of two).
Nearest24(sign, q, r, unit, e) ==
    Carried(sign,
            IF unit > 1 /\ (2 * r > unit \/ (2 * r = unit /\ q % 2 = 1))
            THEN q + 1 ELSE q,
            e)

\* n * 2^e with the k lowest bits of n rounded away.
RoundedBy(n, e, k) ==
    Nearest24(Sign(n), Abs(n) \div Pow2(k), Abs(n) % Pow2(k), Pow2(k), e + k)

\* The f32 nearest to n * 2^e (ties to even), for |n| < 2^31.
F32Round(n, e) == RoundedBy(n, e, ExtraBits(Abs(n)))

\* x + y, where q is |y| in eighths of x's last place and sticky tells
\* whether bits of y were lost below that.
AddSticky(x, sign, q, sticky) ==
    F32Round(x.m * 8 + sign * (IF sticky /\ q % 2 = 0 THEN q + 1 ELSE q),
             x.e - 3)

\* x + y for x.e >= y.e, both nonzero.
AddAligned(x, y) ==
    IF x.e - y.e > 26 THEN x
    ELSE AddSticky(x, Sign(y.m),
                   (Abs(y.m) * 8) \div Pow2(x.e - y.e),
                   (Abs(y.m) * 8) % Pow2(x.e - y.e) # 0)

\* a + b: the smaller operand is aligned to the larger one's exponent with
\* three extra bits, the last of them sticky, and the sum is rounded.
F32Add(a, b) ==
    IF a.m = 0 THEN b
    ELSE IF b.m = 0 THEN a
    ELSE IF a.e < b.e THEN AddAligned(b, a)
    ELSE AddAligned(a, b)

F32Sub(a, b) == F32Add(a, F32Neg(b))

\* a * b with signs.
F32Times(a, b) == Signed(Sign(a.m) * Sign(b.m), F32Mul(F32Abs(a), F32Abs(b)))

\* The first n bits of num / den (0 < num < 2 * den), and what is left.
RECURSIVE DivBits(_, _, _, _)
DivBits(num, den, n, q) ==
    IF n = 0 THEN [q |-> q, rest |-> num]
    ELSE IF num >= den THEN DivBits(2 * (num - den), den, n - 1, 2 * q + 1)
    ELSE DivBits(2 * num, den, n - 1, 2 * q)

\* The quotient bits d and a sticky bit for what is left, rounded.
DivRounded(sign, d, e) ==
    F32Round(sign * (2 * d.q + (IF d.rest # 0 THEN 1 ELSE 0)), e)

\* a / b for b # 0: 26 bits of the quotient and a sticky bit, rounded.
F32Div(a, b) ==
    IF a.m = 0 THEN [m |-> 0, e |-> 0]
    ELSE DivRounded(Sign(a.m) * Sign(b.m),
                    DivBits(Abs(a.m), Abs(b.m), 26, 0),
                    a.e - b.e - 26)

\* a < b with signs.
F32Less(a, b) ==
    IF a.m < 0 /\ b.m < 0 THEN F32Lt(F32Abs(b), F32Abs(a))
    ELSE IF a.m < 0 THEN TRUE
    ELSE IF b.m < 0 THEN FALSE
    ELSE F32Lt(a, b)

F32LessEq(a, b) == ~F32Less(b, a)

\* f32::max, f32::min
F32Max(a, b) == IF F32Less(a, b) THEN b ELSE a
F32Min(a, b) == IF F32Less(b, a) THEN b ELSE a

(***************************************************************************)
(* Economy/upgrade model: Upgrades, get_cost, purchase_upgrade.            *)
(***************************************************************************)
Counters == {"small_attack", "medium_attack", "large_attack",
             "small_hp", "medium_hp", "large_hp",
             "small_speed", "medium_speed", "large_speed",
             "coin_rate", "base_hp"}

\* Upgrades::new()
NewUpgrades == [c \in Counters |-> 0]

\* The counter a (upgrade_type, unit_type) pair selects in the match of
\* purchase_upgrade (get_cost matches the same patterns); NoCounter is the `_` arm.
Counter(upgrade_type, unit_type) ==
    CASE upgrade_type = "attack" /\ unit_type = "small" -> "small_attack"
      [] upgrade_type = "attack" /\ unit_type = "medium" -> "medium_attack"
      [] upgrade_type = "attack" /\ unit_type = "large" -> "large_attack"
      [] upgrade_type = "hp" /\ unit_type = "small" -> "small_hp"
      [] upgrade_type = "hp" /\ unit_type = "medium" -> "medium_hp"
      [] upgrade_type = "hp" /\ unit_type = "large" -> "large_hp"
      [] upgrade_type = "speed" /\ unit_type = "small" -> "small_speed"
      [] upgrade_type = "speed" /\ unit_type = "medium" -> "medium_speed"
      [] upgrade_type = "speed" /\ unit_type = "large" -> "large_speed"
      [] upgrade_type = "coin_rate" -> "coin_rate"
      [] upgrade_type = "base_hp" -> "base_hp"
      [] OTHER -> NoCounter

F32_1_2 == F32Lit(12, 10)       \* 1.2_f32
F32_1_1 == F32Lit(11, 10)       \* 1.1 as f32
F32_3000 == F32FromInt(3000)    \* 3000.0

\* (3000.0 * 1.2_f32.powi(level as i32)) as u32
CostOfLevel(level) == F32AsU32(F32Mul(F32_3000, F32Powi(F32_1_2, level)))

\* get_cost with the medium arms reading the small counters.
get_cost_small_for_medium(upgrades, upgrade_type, unit_type) ==
    LET c == Counter(upgrade_type, IF unit_type = "medium" THEN "small" ELSE unit_type)
        level == IF c = NoCounter THEN 0 ELSE upgrades[c]
    IN  CostOfLevel(level)

\* Upgrades::get_cost
get_cost(upgrades, upgrade_type, unit_type) ==
    LET c == Counter(upgrade_type, unit_type)
        level == IF c = NoCounter THEN 0 ELSE upgrades[c]
    IN  CostOfLevel(level)

ErrNotEnoughCoins == "Not enough coins"
ErrInvalidUpgrade == "Invalid upgrade type"
OkTrue == "Ok(true)"

\* purchase_upgrade without the funds check: the debit saturates at 0.
purchase_upgrade_unchecked(g, upgrade_type, unit_type) ==
    LET cost == get_cost(g.upgrades, upgrade_type, unit_type)
        c == Counter(upgrade_type, unit_type)
        paid == [g EXCEPT !.coins = IF @ < cost THEN 0 ELSE @ - cost]
        raised == [paid EXCEPT !.upgrades[c] = @ + 10]
        newMax == F32Mul(g.max_player_base_hp, F32_1_1)
    IN  IF c = NoCounter
        THEN [g |-> paid, res |-> ErrInvalidUpgrade, persist |-> FALSE]
        ELSE IF c = "base_hp"
        THEN [g |-> [raised EXCEPT !.max_player_base_hp = newMax,
                                   !.player_base_hp = newMax],
              res |-> OkTrue, persist |-> TRUE]
        ELSE [g |-> raised, res |-> OkTrue, persist |-> TRUE]

\* purchase_upgrade whose base_hp arm raises the cap and does not heal.
purchase_upgrade_no_heal(g, upgrade_type, unit_type) ==
    LET cost == get_cost(g.upgrades, upgrade_type, unit_type)
        c == Counter(upgrade_type, unit_type)
        paid == [g EXCEPT !.coins = @ - cost]
        raised == [paid EXCEPT !.upgrades[c] = @ + 10]
        newMax == F32Mul(g.max_player_base_hp, F32_1_1)
    IN  IF g.coins < cost
        THEN [g |-> g, res |-> ErrNotEnoughCoins, persist |-> FALSE]
        ELSE IF c = NoCounter
        THEN [g |-> paid, res |-> ErrInvalidUpgrade, persist |-> FALSE]
        ELSE IF c = "base_hp"
        THEN [g |-> [raised EXCEPT !.max_player_base_hp = newMax],
              res |-> OkTrue, persist |-> TRUE]
        ELSE [g |-> raised, res |-> OkTrue, persist |-> TRUE]

\* purchase_upgrade, had a purchase also raised the max_hp of the player
\* units already on the field.
purchase_upgrade_rescales(g, upgrade_type, unit_type) ==
    LET cost == get_cost(g.upgrades, upgrade_type, unit_type)
        c == Counter(upgrade_type, unit_type)
        paid == [g EXCEPT !.coins = @ - cost]
        raised == [paid EXCEPT
                      !.upgrades[c] = @ + 10,
                      !.player_units =
                          [i \in 1..Len(g.player_units) |->
                              [g.player_units[i] EXCEPT
                                  !.max_hp = F32Mul(g.player_units[i].max_hp,
                                                    F32_1_1)]]]
        newMax == F32Mul(g.max_player_base_hp, F32_1_1)
    IN  IF g.coins < cost
        THEN [g |-> g, res |-> ErrNotEnoughCoins, persist |-> FALSE]
        ELSE IF c = NoCounter
        THEN [g |-> paid, res |-> ErrInvalidUpgrade, persist |-> FALSE]
        ELSE IF c = "base_hp"
        THEN [g |-> [raised EXCEPT !.max_player_base_hp = newMax,
                                   !.player_base_hp = newMax],
              res |-> OkTrue, persist |-> TRUE]
        ELSE [g |-> raised, res |-> OkTrue, persist |-> TRUE]

\* GameState::purchase_upgrade: the state after the call, what it returns,
\* and whether persist_state ran.
purchase_upgrade(g, upgrade_type, unit_type) ==
    LET cost == get_cost(g.upgrades, upgrade_type, unit_type)
        c == Counter(upgrade_type, unit_type)
        paid == [g EXCEPT !.coins = @ - cost]
        raised == [paid EXCEPT !.upgrades[c] = @ + 10]
        newMax == F32Mul(g.max_player_base_hp, F32_1_1)
    IN  IF g.coins < cost
        THEN [g |-> g, res |-> ErrNotEnoughCoins, persist |-> FALSE]
        ELSE IF c = NoCounter
        THEN [g |-> paid, res |-> ErrInvalidUpgrade, persist |-> FALSE]
        ELSE IF c = "base_hp"
        THEN [g |-> [raised EXCEPT !.max_player_base_hp = newMax,
                                   !.player_base_hp = newMax],
              res |-> OkTrue, persist |-> TRUE]
        ELSE [g |-> raised, res |-> OkTrue, persist |-> TRUE]

(***************************************************************************)
(* GameState.                                                              *)
(***************************************************************************)
F32Zero == F32FromInt(0)

\* AutoBuyConfig::default()
DefaultAutoBuy ==
    [enabled |-> FALSE, upgrade_type |-> "", unit_type |-> "",
     remaining_time |-> F32Zero]

\* GameState::fresh()
fresh ==
    [player_units |-> <<>>,
     enemy_units |-> <<>>,
     player_base_hp |-> F32FromInt(1000),
     enemy_base_hp |-> F32FromInt(500),
     max_player_base_hp |-> F32FromInt(1000),
     max_enemy_base_hp |-> F32FromInt(500),
     coins |-> 0,
     stage |-> 1,
     click_count |-> 0,
     type_count |-> 0,
     upgrades |-> NewUpgrades,
     auto_buy |-> DefaultAutoBuy,
     next_unit_id |-> 0,
     enemy_spawn_timer |-> F32Zero,
     stage_clear |-> FALSE,
     save_timer |-> F32Zero]

\* GameState::export_progress: the exportable subset of GameState.
export_progress(g) ==
    [stage |-> g.stage,
     coins |-> g.coins,
     upgrades |-> g.upgrades,
     max_player_base_hp |-> g.max_player_base_hp,
     max_enemy_base_hp |-> g.max_enemy_base_hp]

\* import_progress, had it also healed the player base to the imported cap.
import_progress_heals(g, p) ==
    [g EXCEPT !.stage = p.stage,
              !.coins = p.coins,
              !.upgrades = p.upgrades,
              !.max_player_base_hp = p.max_player_base_hp,
              !.max_enemy_base_hp = p.max_enemy_base_hp,
              !.player_base_hp = p.max_player_base_hp]

\* import_progress that leaves the coin balance alone.
import_progress_keeps_coins(g, p) ==
    [g EXCEPT !.stage = p.stage,
              !.upgrades = p.upgrades,
              !.max_player_base_hp = p.max_player_base_hp,
              !.max_enemy_base_hp = p.max_enemy_base_hp]

\* GameState::import_progress: merges a PlayerProgress into a live GameState.
import_progress(g, p) ==
    [g EXCEPT !.stage = p.stage,
              !.coins = p.coins,
              !.upgrades = p.upgrades,
              !.max_player_base_hp = p.max_player_base_hp,
              !.max_enemy_base_hp = p.max_enemy_base_hp]

\* reset_current_stage, had it taken the coins as well.
reset_current_stage_keeps_hp(g) ==
    [g EXCEPT !.player_units = <<>>,
              !.enemy_units = <<>>,
              !.enemy_base_hp = g.max_enemy_base_hp,
              !.enemy_spawn_timer = F32Zero,
              !.stage_clear = FALSE]

reset_current_stage_takes_coins(g) ==
    [g EXCEPT !.player_units = <<>>,
              !.enemy_units = <<>>,
              !.player_base_hp = g.max_player_base_hp,
              !.enemy_base_hp = g.max_enemy_base_hp,
              !.enemy_spawn_timer = F32Zero,
              !.stage_clear = FALSE,
              !.coins = 0]

\* reset_current_stage, had it moved on to the next stage.
reset_current_stage_advances(g) ==
    [g EXCEPT !.player_units = <<>>,
              !.enemy_units = <<>>,
              !.player_base_hp = g.max_player_base_hp,
              !.enemy_base_hp = g.max_enemy_base_hp,
              !.enemy_spawn_timer = F32Zero,
              !.stage_clear = FALSE,
              !.stage = g.stage + 1]

\* GameState::reset_current_stage (persist_state is its last statement).
reset_current_stage(g) ==
    [g EXCEPT !.player_units = <<>>,
              !.enemy_units = <<>>,
              !.player_base_hp = g.max_player_base_hp,
              !.enemy_base_hp = g.max_enemy_base_hp,
              !.enemy_spawn_timer = F32Zero,
              !.stage_clear = FALSE]

(***************************************************************************)
(* The battlefield: units, spawning and the tick (GameState::update).      *)
(***************************************************************************)
F32One == F32FromInt(1)

\* The f32 a decimal literal num/den denotes (num, den < 2^24).
F32Dec(num, den) == F32Div(F32FromInt(num), F32FromInt(den))

\* f32::ln of a stage number, as the C library's logf rounds it.
LnOfStage(stage) ==
    CASE stage = 1 -> F32Zero
      [] stage = 2 -> [m |-> 11629080, e |-> -24]
      [] stage = 3 -> [m |-> 9215828, e |-> -23]
      [] stage = 4 -> [m |-> 11629080, e |-> -23]
      [] stage = 5 -> [m |-> 13500944, e |-> -23]

UnitTypes == {"Small", "Medium", "Large"}

Unit(id, unit_type, position, hp, attack, speed, is_player) ==
    [id |-> id,
     unit_type |-> unit_type,
     position |-> position,
     hp |-> hp,
     max_hp |-> hp,
     attack |-> attack,
     speed |-> speed,
     is_player |-> is_player,
     target_id |-> None,
     knockback_velocity |-> F32Zero,
     knockback_time |-> F32Zero,
     knockback_total |-> F32Zero]

\* base * (1.0 + bonus as f32 / 100.0)
WithBonus(base, bonus) ==
    F32Times(F32FromInt(base),
             F32Add(F32One, F32Div(F32FromInt(bonus), F32FromInt(100))))

\* GameState::spawn_unit
spawn_unit(g, unit_type) ==
    LET base == CASE unit_type = "Small" -> <<10, 5, 100>>
                  [] unit_type = "Medium" -> <<30, 15, 80>>
                  [] unit_type = "Large" -> <<100, 50, 60>>
        size == CASE unit_type = "Small" -> "small"
                  [] unit_type = "Medium" -> "medium"
                  [] unit_type = "Large" -> "large"
        hp == WithBonus(base[1], g.upgrades[size \o "_hp"])
        attack == WithBonus(base[2], g.upgrades[size \o "_attack"])
        speed == WithBonus(base[3], g.upgrades[size \o "_speed"])
    IN  [g EXCEPT
            !.player_units = Append(g.player_units,
                                    Unit(g.next_unit_id, unit_type, F32Zero,
                                         hp, attack, speed, TRUE)),
            !.next_unit_id = g.next_unit_id + 1,
            !.type_count = IF unit_type = "Small" THEN g.type_count + 1
                           ELSE g.type_count,
            !.click_count = IF unit_type = "Medium" THEN g.click_count + 1
                            ELSE g.click_count]

\* GameState::spawn_enemy, unit_type being what the random draws gave.
spawn_enemy(g, unit_type) ==
    LET stage == F32FromInt(g.stage)
        stage_multiplier ==
            F32Add(F32Add(F32One,
                          F32Times(F32Sub(stage, F32One), F32Dec(5, 100))),
                   F32Times(F32Div(LnOfStage(g.stage), F32FromInt(10)),
                            F32Dec(3, 10)))
        base == CASE unit_type = "Small" -> <<15, 4, 90>>
                  [] unit_type = "Medium" -> <<40, 12, 70>>
                  [] unit_type = "Large" -> <<120, 40, 50>>
    IN  [g EXCEPT
            !.enemy_units =
                Append(g.enemy_units,
                       Unit(g.next_unit_id, unit_type, F32FromInt(1000),
                            F32Times(F32FromInt(base[1]), stage_multiplier),
                            F32Times(F32FromInt(base[2]), stage_multiplier),
                            F32FromInt(base[3]), FALSE)),
            !.next_unit_id = g.next_unit_id + 1]

\* The knockback of a unit at the start of its turn in update.
Knockback(u, delta) ==
    IF F32Less(F32Zero, u.knockback_time)
    THEN LET time == F32Max(F32Sub(u.knockback_time, delta), F32Zero)
         IN  [u EXCEPT
                 !.position = F32Add(u.position,
                                     F32Times(u.knockback_velocity, delta)),
                 !.knockback_time = time,
                 !.knockback_velocity = IF time = F32Zero THEN F32Zero
                                        ELSE u.knockback_velocity,
                 !.knockback_total = IF time = F32Zero THEN F32Zero
                                     ELSE u.knockback_total]
    ELSE u

HasId(units, id) == \E j \in 1..Len(units) : units[j].id = id

\* Iterator::find(|e| e.id == id): the first unit of that id.
IndexOfId(units, id) ==
    CHOOSE j \in 1..Len(units) :
        /\ units[j].id = id
        /\ \A k \in 1..(j - 1) : units[k].id # id

Distance(a, position) == F32Abs(F32Sub(a.position, position))

\* the last of the nearest, as Iterator::max_by would break a tie
NearestLast(units, position) ==
    CHOOSE j \in 1..Len(units) :
        /\ \A k \in 1..Len(units) :
               ~F32Less(Distance(units[k], position), Distance(units[j], position))
        /\ \A k \in (j + 1)..Len(units) :
               F32Less(Distance(units[j], position), Distance(units[k], position))

\* Iterator::min_by on the distance to position: the first of the nearest.
Nearest(units, position) ==
    CHOOSE j \in 1..Len(units) :
        /\ \A k \in 1..Len(units) :
               ~F32Less(Distance(units[k], position), Distance(units[j], position))
        /\ \A k \in 1..(j - 1) :
               F32Less(Distance(units[j], position), Distance(units[k], position))

\* The target a unit has after the checks of its turn: a target that no
\* longer exists is dropped, and a unit without target takes the nearest.
Retarget(u, opponents) ==
    LET valid == IF u.target_id # None /\ ~HasId(opponents, Get(u.target_id))
                 THEN None ELSE u.target_id
    IN  IF valid = None /\ opponents # <<>>
        THEN Some(opponents[Nearest(opponents, u.position)].id)
        ELSE valid

\* (1.0 * coin_bonus).max(1.0) as u32
KillCoins(g) ==
    LET coin_bonus == F32Add(F32One, F32Div(F32FromInt(g.upgrades["coin_rate"]),
                                            F32FromInt(100)))
    IN  F32AsU32(F32Max(F32Times(F32One, coin_bonus), F32One))

\* Player unit i, now u, is within reach of enemy unit j and has brought
\* its hp down to hp: a kill pays coins and marks the enemy for removal.
PlayerHits(st, i, u, j, hp) ==
    [g |-> [st.g EXCEPT
               !.player_units[i] = u,
               !.enemy_units[j].hp = hp,
               !.coins = IF F32LessEq(hp, F32Zero)
                         THEN st.g.coins + KillCoins(st.g)
                         ELSE st.g.coins],
     units_to_remove |->
         IF F32LessEq(hp, F32Zero)
         THEN st.units_to_remove \cup {st.g.enemy_units[j].id}
         ELSE st.units_to_remove]

\* Player unit i, now u, has enemy unit j for target: it attacks within
\* 10.0 and walks towards it otherwise.
PlayerFights(st, i, u, j, delta) ==
    IF F32LessEq(Distance(st.g.enemy_units[j], u.position), F32FromInt(10))
    THEN PlayerHits(st, i, u, j,
                    F32Sub(st.g.enemy_units[j].hp, F32Times(u.attack, delta)))
    ELSE [st EXCEPT
             !.g.player_units[i] =
                 [u EXCEPT
                     !.position =
                         F32Add(u.position,
                                F32Times(F32Times(
                                             IF F32Less(u.position,
                                                        st.g.enemy_units[j].position)
                                             THEN F32One ELSE F32Neg(F32One),
                                             u.speed),
                                         delta))]]

\* Player unit i, now u with its target settled: it fights the target,
\* walks to the enemy base, or attacks the base once there.
PlayerActs(st, i, u, delta) ==
    IF u.target_id # None
    THEN PlayerFights(st, i, u,
                      IndexOfId(st.g.enemy_units, Get(u.target_id)), delta)
    ELSE IF F32Less(u.position, F32FromInt(1000))
    THEN [st EXCEPT
             !.g.player_units[i] =
                 [u EXCEPT !.position =
                               F32Add(u.position, F32Times(u.speed, delta))]]
    ELSE [st EXCEPT
             !.g.player_units[i] = u,
             !.g.enemy_base_hp =
                 F32Sub(st.g.enemy_base_hp, F32Times(u.attack, delta))]

\* Player unit i, now u after its knockback, settles its target.
PlayerAims(st, i, u, delta) ==
    PlayerActs(st, i, [u EXCEPT !.target_id = Retarget(u, st.g.enemy_units)],
               delta)

\* The turn of player unit i in update; st is the GameState and
\* units_to_remove so far.
PlayerTurn(st, i, delta) ==
    PlayerAims(st, i, Knockback(st.g.player_units[i], delta), delta)

\* Enemy unit i, now u, is within reach of player unit j and has brought
\* its hp down to hp.
EnemyHits(st, i, u, j, hp) ==
    [g |-> [st.g EXCEPT
               !.enemy_units[i] = u,
               !.player_units[j].hp = hp],
     units_to_remove |->
         IF F32LessEq(hp, F32Zero)
         THEN st.units_to_remove \cup {st.g.player_units[j].id}
         ELSE st.units_to_remove]

\* Enemy unit i, now u, has player unit j for target.
EnemyFights(st, i, u, j, delta) ==
    IF F32LessEq(Distance(st.g.player_units[j], u.position), F32FromInt(10))
    THEN EnemyHits(st, i, u, j,
                   F32Sub(st.g.player_units[j].hp, F32Times(u.attack, delta)))
    ELSE [st EXCEPT
             !.g.enemy_units[i] =
                 [u EXCEPT
                     !.position =
                         F32Add(u.position,
                                F32Times(F32Times(
                                             IF F32Less(u.position,
                                                        st.g.player_units[j].position)
                                             THEN F32One ELSE F32Neg(F32One),
                                             u.speed),
                                         delta))]]

\* Enemy unit i, now u with its target settled: it fights the target,
\* walks to the player base, or attacks the base once there.
EnemyActs(st, i, u, delta) ==
    IF u.target_id # None
    THEN EnemyFights(st, i, u,
                     IndexOfId(st.g.player_units, Get(u.target_id)), delta)
    ELSE IF F32Less(F32Zero, u.position)
    THEN [st EXCEPT
             !.g.enemy_units[i] =
                 [u EXCEPT !.position =
                               F32Sub(u.position, F32Times(u.speed, delta))]]
    ELSE [st EXCEPT
             !.g.enemy_units[i] = u,
             !.g.player_base_hp =
                 F32Sub(st.g.player_base_hp, F32Times(u.attack, delta))]

\* Enemy unit i, now u after its knockback, settles its target.
EnemyAims(st, i, u, delta) ==
    EnemyActs(st, i, [u EXCEPT !.target_id = Retarget(u, st.g.player_units)],
              delta)

\* The turn of enemy unit i in update.
EnemyTurn(st, i, delta) ==
    EnemyAims(st, i, Knockback(st.g.enemy_units[i], delta), delta)

RECURSIVE PlayerTurns(_, _, _)
PlayerTurns(st, i, delta) ==
    IF i > Len(st.g.player_units) THEN st
    ELSE PlayerTurns(PlayerTurn(st, i, delta), i + 1, delta)

RECURSIVE EnemyTurns(_, _, _)
EnemyTurns(st, i, delta) ==
    IF i > Len(st.g.enemy_units) THEN st
    ELSE EnemyTurns(EnemyTurn(st, i, delta), i + 1, delta)

\* The clamp without its lower limit: position.min(1000.0)
ClampAbove(units) ==
    [i \in 1..Len(units) |->
        [units[i] EXCEPT
            !.position = F32Min(units[i].position, F32FromInt(1000))]]

\* position.max(0.0).min(1000.0)
Clamp(units) ==
    [i \in 1..Len(units) |->
        [units[i] EXCEPT
            !.position = F32Min(F32Max(units[i].position, F32Zero),
                                F32FromInt(1000))]]

\* The end of the fights: positions are clamped and the units marked for
\* death removed.
RemoveUnits(st) ==
    LET Alive(u) == u.id \notin st.units_to_remove
    IN  [st.g EXCEPT
            !.player_units = SelectSeq(Clamp(st.g.player_units), Alive),
            !.enemy_units = SelectSeq(Clamp(st.g.enemy_units), Alive)]

\* The fights of a tick: both sides take their turns, positions are
\* clamped and the units marked for death removed.
Combat(g, delta) ==
    RemoveUnits(EnemyTurns(PlayerTurns([g |-> g, units_to_remove |-> {}],
                                       1, delta),
                           1, delta))

\* The knockback the random draws may give a unit: a distance in
\* [30, 200) and a duration in [0.35, 0.85).
Knockbacks ==
    { [distance |-> F32FromInt(30), duration |-> F32Dec(1, 2)],
      [distance |-> F32FromInt(180), duration |-> F32Dec(3, 8)] }

\* reposition_player_units without the final retain.
reposition_player_units_keeps_dead(g, draws) ==
    LET small_base_hp == WithBonus(10, g.upgrades["small_hp"])
        damage == F32Times(small_base_hp, F32Dec(35, 100))
    IN  [g EXCEPT
            !.player_units =
                [i \in 1..Len(g.player_units) |->
                    [g.player_units[i] EXCEPT
                        !.position = F32Min(g.player_units[i].position,
                                            F32FromInt(400)),
                        !.hp = F32Sub(g.player_units[i].hp, damage),
                        !.knockback_velocity =
                            F32Neg(F32Div(draws[i].distance, draws[i].duration)),
                        !.knockback_time = draws[i].duration,
                        !.knockback_total = draws[i].duration]]]

\* reposition_player_units; draws[i] is what the random draws give unit i.
reposition_player_units(g, draws) ==
    LET small_base_hp == WithBonus(10, g.upgrades["small_hp"])
        damage == F32Times(small_base_hp, F32Dec(35, 100))
        moved == [i \in 1..Len(g.player_units) |->
                     [g.player_units[i] EXCEPT
                         !.position = F32Min(g.player_units[i].position,
                                             F32FromInt(400)),
                         !.hp = F32Sub(g.player_units[i].hp, damage),
                         !.knockback_velocity =
                             F32Neg(F32Div(draws[i].distance, draws[i].duration)),
                         !.knockback_time = draws[i].duration,
                         !.knockback_total = draws[i].duration]]
        Survives(u) == F32Less(F32Zero, u.hp)
    IN  [g EXCEPT !.player_units = SelectSeq(moved, Survives)]

\* next_stage, had it advanced by two stages.
next_stage_skips(g, draws) ==
    LET stage == g.stage + 2
        hp == F32Times(F32FromInt(500),
                       F32Add(F32One,
                              F32Times(F32Sub(F32FromInt(stage), F32One),
                                       F32Dec(1, 2))))
    IN  reposition_player_units(
            [g EXCEPT !.stage = stage,
                      !.enemy_base_hp = hp,
                      !.max_enemy_base_hp = hp,
                      !.enemy_units = <<>>,
                      !.enemy_spawn_timer = F32Zero,
                      !.stage_clear = FALSE],
            draws)

\* GameState::next_stage (persist_state is its last statement).
next_stage(g, draws) ==
    LET stage == g.stage + 1
        hp == F32Times(F32FromInt(500),
                       F32Add(F32One,
                              F32Times(F32Sub(F32FromInt(stage), F32One),
                                       F32Dec(1, 2))))
    IN  reposition_player_units(
            [g EXCEPT !.stage = stage,
                      !.enemy_base_hp = hp,
                      !.max_enemy_base_hp = hp,
                      !.enemy_units = <<>>,
                      !.enemy_spawn_timer = F32Zero,
                      !.stage_clear = FALSE],
            draws)

\* (3.0 - (stage as f32 * 0.002).min(2.0)).max(1.0)
SpawnInterval(stage) ==
    F32Max(F32Sub(F32FromInt(3),
                  F32Min(F32Times(F32FromInt(stage), F32Dec(2, 1000)),
                         F32FromInt(2))),
           F32One)

\* update, first part: the spawn timer and the enemy it may spawn.
TickSpawn(g, delta, unit_type) ==
    LET timer == F32Add(g.enemy_spawn_timer, delta)
    IN  IF F32LessEq(SpawnInterval(g.stage), timer)
        THEN [spawn_enemy(g, unit_type) EXCEPT !.enemy_spawn_timer = F32Zero]
        ELSE [g EXCEPT !.enemy_spawn_timer = timer]

\* the automatic purchase looking at `enabled' as the tick found it
AutoBuyAtExpiry(g, delta) ==
    LET left == F32Sub(g.auto_buy.remaining_time, delta)
        over == F32LessEq(left, F32Zero)
        a == [g.auto_buy EXCEPT
                 !.remaining_time = IF over THEN F32Zero ELSE left,
                 !.enabled = IF over THEN FALSE ELSE g.auto_buy.enabled]
        g1 == [g EXCEPT !.auto_buy = a]
        r == purchase_upgrade(g1, a.upgrade_type, a.unit_type)
    IN  IF F32Less(F32Zero, g.auto_buy.remaining_time)
        THEN IF g.auto_buy.enabled /\ a.upgrade_type # ""
                  /\ g1.coins >= get_cost(g1.upgrades, a.upgrade_type, a.unit_type)
             THEN [g |-> r.g, persist |-> r.persist, bought |-> TRUE]
             ELSE [g |-> g1, persist |-> FALSE, bought |-> FALSE]
        ELSE [g |-> [g EXCEPT !.auto_buy.enabled = FALSE],
              persist |-> FALSE, bought |-> FALSE]

\* update, the automatic purchase: the state after it and whether it bought.
AutoBuy(g, delta) ==
    LET left == F32Sub(g.auto_buy.remaining_time, delta)
        over == F32LessEq(left, F32Zero)
        a == [g.auto_buy EXCEPT
                 !.remaining_time = IF over THEN F32Zero ELSE left,
                 !.enabled = IF over THEN FALSE ELSE g.auto_buy.enabled]
        g1 == [g EXCEPT !.auto_buy = a]
        r == purchase_upgrade(g1, a.upgrade_type, a.unit_type)
    IN  IF F32Less(F32Zero, g.auto_buy.remaining_time)
        THEN IF a.enabled /\ a.upgrade_type # ""
                  /\ g1.coins >= get_cost(g1.upgrades, a.upgrade_type, a.unit_type)
             THEN [g |-> r.g, persist |-> r.persist, bought |-> TRUE]
             ELSE [g |-> g1, persist |-> FALSE, bought |-> FALSE]
        ELSE [g |-> [g EXCEPT !.auto_buy.enabled = FALSE],
              persist |-> FALSE, bought |-> FALSE]

\* The enemy base fell in this tick's fights.
StageCleared(fought) ==
    F32LessEq(fought.enemy_base_hp, F32Zero) /\ ~fought.stage_clear

\* (20 * stage / 2).max(10)
StageReward(stage) ==
    IF (20 * stage) \div 2 > 10 THEN (20 * stage) \div 2 ELSE 10

\* update, its end: the save timer.  fought, g2, g3 and auto are the
\* GameState after the fights, after the stage clear, after the defeat
\* and the outcome of the automatic purchase; timer is save_timer + delta.
UpdateSave(fought, g2, g3, auto, timer) ==
    LET save == F32LessEq(F32FromInt(5), timer)
        g5 == [auto.g EXCEPT !.save_timer = IF save THEN F32Zero ELSE timer]
    IN  [g |-> g5,
         saved |-> IF save THEN Some(g5)
                   ELSE IF auto.persist THEN Some(auto.g)
                   ELSE IF F32LessEq(g2.player_base_hp, F32Zero) THEN Some(g3)
                   ELSE IF StageCleared(fought) THEN Some(g2)
                   ELSE None,
         fought |-> fought,
         clear |-> StageCleared(fought),
         defeat |-> F32LessEq(g2.player_base_hp, F32Zero),
         bought |-> auto.bought]

\* update from the automatic purchase on.
UpdateAutoBuy(fought, g2, g3, auto, delta) ==
    UpdateSave(fought, g2, g3, auto, F32Add(auto.g.save_timer, delta))

\* update from the defeat check on: a fallen player base resets the stage.
UpdateDefeat(fought, g2, delta) ==
    UpdateAutoBuy(fought, g2,
                  IF F32LessEq(g2.player_base_hp, F32Zero)
                  THEN reset_current_stage(g2) ELSE g2,
                  AutoBuy(IF F32LessEq(g2.player_base_hp, F32Zero)
                          THEN reset_current_stage(g2) ELSE g2,
                          delta),
                  delta)

\* update from the stage-clear check on: a fallen enemy base pays the
\* reward and starts the next stage.
UpdateClear(fought, delta, draws) ==
    UpdateDefeat(fought,
                 IF StageCleared(fought)
                 THEN next_stage([fought EXCEPT
                                     !.stage_clear = TRUE,
                                     !.coins = fought.coins
                                               + StageReward(fought.stage)],
                                 draws)
                 ELSE fought,
                 delta)

\* GameState::update.  The result is the GameState after the tick, the
\* snapshot file if the tick wrote it (the last persist_state wins), and
\* what happened: the enemy base's hp when the fights ended, whether the
\* stage was cleared, whether the player base fell.
update(g, delta, unit_type, draws) ==
    UpdateClear(Combat(TickSpawn(g, delta, unit_type), delta), delta, draws)

(***************************************************************************)
(* The initial states.  GameState::new() loads the snapshot a previous run *)
(* left or starts fresh; the snapshots below are states earlier play       *)
(* leaves: coins earned from kills and stage clears, a base an enemy unit  *)
(* has hit, a cleared first stage, upgrades bought before.                 *)
(***************************************************************************)
InitCoins == {0, 2999, 3000, 21575}

Snapshots ==
    { [fresh EXCEPT !.coins = c, !.player_base_hp = h] :
          c \in InitCoins, h \in {F32FromInt(1000), F32FromInt(996)} }
    \cup
    { [fresh EXCEPT !.stage = 2, !.coins = 6010,
                    !.enemy_base_hp = F32FromInt(750),
                    !.max_enemy_base_hp = F32FromInt(750),
                    !.player_base_hp = F32FromInt(996)],
      [fresh EXCEPT !.coins = 21575, !.upgrades["small_attack"] = 10],
      [fresh EXCEPT !.coins = 115012, !.upgrades["small_attack"] = 20] }

ClientInit ==
    /\ server_url = ""
    /\ player_info = None
    /\ last_remote_update = None
    /\ inflight = {}
    /\ sent = 0

ServerInit ==
    /\ players = <<>>
    /\ name_index = <<>>
    /\ files = <<>>
    /\ pending = {}
    /\ now = 0

InitEconomy ==
    /\ game \in Snapshots
    /\ saved = game
    /\ prev = game
    /\ before = None
    /\ ret = [op |-> "new"]
    /\ cmds = 0
    /\ others = 0
    /\ ticks = 0
    /\ lock = Free
    /\ pc = Idle
    /\ loop = Sleeping
    /\ counter = NoInputs
    /\ pressed = NoInputs
    /\ issued = <<>>
    /\ ClientInit
    /\ ServerInit

(***************************************************************************)
(* Commands on the simulation (src-tauri/src/lib.rs).                      *)
(***************************************************************************)
\* The (upgrade_type, unit_type) strings a caller passes: the eleven pairs
\* of the enumeration, the two axes without a size given a size, and pairs
\* outside the enumeration.
PurchaseInputs ==
    ({"attack", "hp", "speed"} \X {"small", "medium", "large"})
    \cup {<<"coin_rate", "">>, <<"base_hp", "">>,
          <<"coin_rate", "small">>, <<"base_hp", "huge">>,
          <<"attack", "">>, <<"hp", "huge">>, <<"armor", "small">>, <<"", "">>}

\* #[tauri::command] purchase_upgrade
PurchaseUpgradeCmd(upgrade_type, unit_type) ==
    /\ cmds < MaxCmds
    /\ LET r == purchase_upgrade(game, upgrade_type, unit_type)
       IN  /\ game' = r.g
           /\ saved' = IF r.persist THEN r.g ELSE saved
           /\ ret' = [op |-> "purchase_upgrade", upgrade_type |-> upgrade_type,
                      unit_type |-> unit_type, res |-> r.res]
    /\ prev' = game
    /\ cmds' = cmds + 1
    /\ UNCHANGED <<before, others, clientVars, serverVars, battleVars>>

\* #[tauri::command] reset_stage
ResetStageCmd ==
    /\ cmds < MaxCmds
    /\ game' = reset_current_stage(game)
    /\ saved' = game'
    /\ ret' = [op |-> "reset_stage"]
    /\ prev' = game
    /\ cmds' = cmds + 1
    /\ UNCHANGED <<before, others, clientVars, serverVars, battleVars>>

NextEconomy ==
    \/ \E in \in PurchaseInputs : PurchaseUpgradeCmd(in[1], in[2])
    \/ ResetStageCmd

SpecEconomy == InitEconomy /\ [][NextEconomy]_vars

(***************************************************************************)
(* The game loop of run() and the commands, on a battlefield               *)
(* (SpecBattle).  A step of the loop spawns the units the input counters   *)
(* and the minute timer ask for and calls update; between two steps a      *)
(* command may take the lock, or the process may end and start again from  *)
(* the snapshot file.                                                      *)
(***************************************************************************)
MaxTicks == 2       \* iterations of the game loop in one run
MaxUnits == 2       \* player units on the field that input may still add to
MaxBattleCmds == 1  \* commands and restarts between the iterations of one run

\* GameState::new() when the snapshot file holds `snapshot`.
new_reuses_highest(snapshot) ==
    LET units == snapshot.player_units \o snapshot.enemy_units
        ids == {units[i].id : i \in 1..Len(units)}
        highest == IF ids = {} THEN 0
                   ELSE CHOOSE id \in ids : \A other \in ids : other <= id
    IN  [snapshot EXCEPT !.save_timer = F32Zero, !.next_unit_id = highest]

new(snapshot) ==
    LET units == snapshot.player_units \o snapshot.enemy_units
        ids == {units[i].id : i \in 1..Len(units)}
        highest == IF ids = {} THEN 0
                   ELSE CHOOSE id \in ids : \A other \in ids : other <= id
    IN  [snapshot EXCEPT !.save_timer = F32Zero, !.next_unit_id = highest + 1]

\* Snapshots earlier play leaves with units on the field: in stage 2, two
\* units at the enemy base, one of them hurt, the base nearly down; an enemy unit at the
\* player base, the base nearly down; a unit of each side about to meet,
\* with coins to spend.
BattleSnapshots ==
    { LET g == spawn_unit(spawn_unit([fresh EXCEPT
                                          !.stage = 2, !.coins = 10,
                                          !.max_enemy_base_hp = F32FromInt(750)],
                                      "Medium"),
                           "Small")
      IN  [g EXCEPT !.player_units[1].position = F32FromInt(1000),
                    !.player_units[2].position = F32FromInt(1000),
                    !.player_units[2].hp = F32FromInt(3),
                    !.enemy_base_hp = F32Dec(1, 5)],
      LET g == spawn_enemy(fresh, "Small")
      IN  [g EXCEPT !.enemy_units[1].position = F32Zero,
                    !.player_base_hp = F32Dec(1, 20)],
      LET g == spawn_enemy(spawn_unit([fresh EXCEPT !.coins = 8000], "Small"),
                           "Small")
      IN  [g EXCEPT !.player_units[1].position = F32FromInt(495),
                    !.enemy_units[1].position = F32FromInt(500),
                    !.enemy_units[1].hp = F32Dec(1, 20)],
      LET g == spawn_enemy(spawn_unit(spawn_unit(fresh, "Small"), "Small"),
                           "Small")
      IN  [g EXCEPT !.player_units[1].position = F32FromInt(495),
                    !.player_units[2].position = F32FromInt(498),
                    !.enemy_units[1].position = F32FromInt(500),
                    !.enemy_units[1].hp = F32Dec(1, 20)] }

\* The ids of the units of g, in ascending order.
RECURSIVE Ascending(_)
Ascending(ids) ==
    IF ids = {} THEN <<>>
    ELSE LET least == CHOOSE id \in ids : \A other \in ids : id <= other
         IN  <<least>> \o Ascending(ids \ {least})

UnitIds(g) ==
    {g.player_units[i].id : i \in 1..Len(g.player_units)}
        \cup {g.enemy_units[i].id : i \in 1..Len(g.enemy_units)}

InitBattle ==
    /\ saved \in BattleSnapshots
    /\ game = new(saved)
    /\ prev = game
    /\ before = None
    /\ ret = [op |-> "new"]
    /\ cmds = 0
    /\ others = 0
    /\ ticks = 0
    /\ lock = Free
    /\ pc = Idle
    /\ loop = Sleeping
    /\ counter = NoInputs
    /\ pressed = NoInputs
    /\ issued = Ascending(UnitIds(game))
    /\ ClientInit
    /\ ServerInit

\* What a step of the loop measures and consumes: the time since the step
\* before (a sixtieth of a second, or four seconds after a stall), the key
\* presses and clicks counted meanwhile, and whether the minute is over.
LoopInputs ==
    { [delta |-> F32Dec(1, 60), types |-> 0, clicks |-> 0, minute |-> FALSE],
      [delta |-> F32Dec(1, 60), types |-> 1, clicks |-> 0, minute |-> FALSE],
      [delta |-> F32FromInt(4), types |-> 0, clicks |-> 0, minute |-> TRUE] }

EnemyTypes == {"Small", "Large"}

RECURSIVE SpawnUnits(_, _, _)
SpawnUnits(g, unit_type, n) ==
    IF n = 0 THEN g ELSE SpawnUnits(spawn_unit(g, unit_type), unit_type, n - 1)

\* The units a step of the loop spawns before it calls update.
LoopSpawns(g, in) ==
    LET typed == SpawnUnits(g, "Small", in.types)
        clicked == SpawnUnits(typed, "Medium", in.clicks)
    IN  IF in.minute THEN spawn_unit(clicked, "Large") ELSE clicked

\* id, id + 1, ..., below
RECURSIVE IdsFrom(_, _)
IdsFrom(id, below) ==
    IF id >= below THEN <<>> ELSE <<id>> \o IdsFrom(id + 1, below)

\* What an iteration leaves: r is what update returned for the state
\* spawned, born the next unit id once the tick's enemy is spawned; removed
\* is the number of enemy units the fights took from the list.
IterationResult(delta, spawned, r, born) ==
    /\ game' = r.g
    /\ saved' = IF r.saved # None THEN Get(r.saved) ELSE saved
    /\ issued' = issued \o IdsFrom(game.next_unit_id, born)
    /\ ret' = [op |-> "tick", delta |-> delta, spawned |-> spawned,
               enemy_base_hp |-> r.fought.enemy_base_hp,
               coins |-> r.fought.coins,
               removed |-> Len(spawned.enemy_units)
                           + (born - spawned.next_unit_id)
                           - Len(r.fought.enemy_units),
               clear |-> r.clear, defeat |-> r.defeat,
               bought |-> r.bought]

\* The iteration's call of update on the state spawned, the GameState with
\* the units the input asked for.
IterationUpdate(delta, spawned, unit_type, draws) ==
    IterationResult(delta, spawned,
                    update(spawned, delta, unit_type, draws),
                    TickSpawn(spawned, delta, unit_type).next_unit_id)

\* One iteration of the game loop, from taking the lock to releasing it.
Iteration(in, unit_type, draws) ==
    /\ ticks < MaxTicks
    /\ \/ Len(game.player_units) + in.types + in.clicks
              + (IF in.minute THEN 1 ELSE 0) <= MaxUnits
       \/ (in.types + in.clicks = 0 /\ ~in.minute)
    /\ IterationUpdate(in.delta, LoopSpawns(game, in), unit_type, draws)
    /\ prev' = game
    /\ ticks' = ticks + 1
    /\ UNCHANGED <<before, cmds, others, clientVars, serverVars>>

\* An iteration no command is in the way of.
Tick(in, unit_type, draws) ==
    /\ Iteration(in, unit_type, draws)
    /\ UNCHANGED <<lockVars, loopVars>>

\* #[tauri::command] start_auto_buy
StartAutoBuyCmd(upgrade_type, unit_type, duration_seconds) ==
    /\ cmds < MaxCmds
    /\ IF game.coins < 5000
       THEN /\ ret' = [op |-> "start_auto_buy",
                       res |-> "Not enough coins for auto-buy"]
            /\ game' = game
       ELSE /\ ret' = [op |-> "start_auto_buy", res |-> "Ok"]
            /\ game' = [game EXCEPT
                           !.coins = game.coins - 5000,
                           !.auto_buy = [enabled |-> TRUE,
                                         upgrade_type |-> upgrade_type,
                                         unit_type |-> unit_type,
                                         remaining_time |-> duration_seconds]]
    /\ prev' = game
    /\ cmds' = cmds + 1
    /\ UNCHANGED <<saved, before, others, clientVars, serverVars, battleVars>>

\* #[tauri::command] stop_auto_buy
StopAutoBuyCmd ==
    /\ cmds < MaxCmds
    /\ game' = [game EXCEPT !.auto_buy.enabled = FALSE,
                            !.auto_buy.remaining_time = F32Zero]
    /\ ret' = [op |-> "stop_auto_buy", res |-> "Ok"]
    /\ prev' = game
    /\ cmds' = cmds + 1
    /\ UNCHANGED <<saved, before, others, clientVars, serverVars, battleVars>>

\* The process ends and run() starts again: GameState::new() loads the
\* snapshot file, MultiplayerClient::new() forgets the identity.  A restart
\* is counted with the commands.
Restart ==
    /\ cmds < MaxCmds
    /\ cmds' = cmds + 1
    /\ game' = new(saved)
    /\ prev' = game
    /\ ret' = [op |-> "restart"]
    /\ player_info' = None
    /\ last_remote_update' = None
    /\ UNCHANGED <<saved, before, others, server_url, inflight, sent,
                   serverVars, battleVars>>

\* What the random draws of a tick may give: an enemy type if an enemy is
\* spawned, a knockback for each player unit if the stage may be cleared
\* (a unit stands at the enemy base).
TypeDraws(g, delta) ==
    IF F32LessEq(SpawnInterval(g.stage), F32Add(g.enemy_spawn_timer, delta))
    THEN EnemyTypes ELSE {"Small"}

KnockbackDraws(g) ==
    LET one == CHOOSE k \in Knockbacks : TRUE
        n == Len(g.player_units)
    IN  IF \E i \in 1..n : ~F32Less(g.player_units[i].position, F32FromInt(1000))
        THEN [1..n -> Knockbacks]
        ELSE {[i \in 1..n |-> one]}

Ticks ==
    \E in \in LoopInputs :
        \E unit_type \in TypeDraws(LoopSpawns(game, in), in.delta) :
            \E draws \in KnockbackDraws(LoopSpawns(game, in)) :
                Tick(in, unit_type, draws)

NextBattle ==
    \/ Ticks
    \/ cmds < MaxBattleCmds /\ PurchaseUpgradeCmd("hp", "small")
    \/ cmds < MaxBattleCmds /\ StartAutoBuyCmd("hp", "small", F32FromInt(10))

SpecBattle == InitBattle /\ [][NextBattle]_vars

\* The same loop, with the process ending and starting again and the stage
\* given up between its iterations (SpecRestart).
NextRestart ==
    \/ Ticks
    \/ cmds < MaxBattleCmds /\ ResetStageCmd
    \/ cmds < MaxBattleCmds /\ Restart

SpecRestart == InitBattle /\ [][NextRestart]_vars

\* The battle with the commands that write a base's hit points (SpecBase):
\* the base_hp upgrade and the reset of the stage.
NextBase ==
    \/ Ticks
    \/ cmds < MaxBattleCmds /\ PurchaseUpgradeCmd("base_hp", "")
    \/ cmds < MaxBattleCmds /\ ResetStageCmd

SpecBase == InitBattle /\ [][NextBase]_vars

\* The battle with an automatic purchase running out (SpecAutoBuy): the
\* player, with coins from earlier play, has called start_auto_buy("hp",
\* "small", ..) for 4 or 8 seconds; stalled iterations of 4 s use the time
\* up, and the player may stop the purchase or start another.
InitAutoBuy ==
    /\ saved = [fresh EXCEPT !.coins = 45000]
    /\ \E seconds \in {4, 8} :
           game = [new(saved) EXCEPT
                      !.coins = 40000,
                      !.auto_buy = [enabled |-> TRUE, upgrade_type |-> "hp",
                                    unit_type |-> "small",
                                    remaining_time |-> F32FromInt(seconds)]]
    /\ prev = new(saved)
    /\ before = None
    /\ ret = [op |-> "start_auto_buy", res |-> "Ok"]
    /\ cmds = 0
    /\ others = 0
    /\ ticks = 0
    /\ lock = Free
    /\ pc = Idle
    /\ loop = Sleeping
    /\ counter = NoInputs
    /\ pressed = NoInputs
    /\ issued = <<>>
    /\ ClientInit
    /\ ServerInit

NextAutoBuy ==
    \/ Ticks
    \/ cmds < MaxBattleCmds /\ StartAutoBuyCmd("hp", "small", F32FromInt(6))
    \/ cmds < MaxBattleCmds /\ StopAutoBuyCmd

SpecAutoBuy == InitAutoBuy /\ [][NextAutoBuy]_vars

(***************************************************************************)
(* The turns of the units inside one update (SpecTurn): the fields are     *)
(* battles under way, one or two player units around the middle of the     *)
(* field and up to two enemy units near or far, each unit with no target,  *)
(* a target on the field or the id of a unit that is gone.  ticks counts   *)
(* the turns taken: first the player units in list order, then the enemy   *)
(* units.                                                                  *)
(***************************************************************************)
FieldUnit(id, position, is_player, target_id) ==
    [Unit(id, "Small", F32FromInt(position), F32FromInt(10), F32FromInt(5),
          F32FromInt(100), is_player)
        EXCEPT !.target_id = target_id]

FieldPlayers ==
    { <<FieldUnit(1, 500, TRUE, t)>> : t \in {None, Some(3), Some(4), Some(9)} }
        \cup { <<FieldUnit(1, 500, TRUE, t), FieldUnit(2, 495, TRUE, None)>> :
                   t \in {None, Some(3), Some(4), Some(9)} }

FieldEnemies ==
    {<<>>}
        \cup { <<FieldUnit(3, p, FALSE, t)>> :
                   p \in {490, 510, 700}, t \in {None, Some(9)} }
        \cup { <<FieldUnit(3, p, FALSE, t), FieldUnit(4, q, FALSE, None)>> :
                   p \in {490, 510, 700}, q \in {490, 510, 700},
                   t \in {None, Some(9)} }

InitTurn ==
    /\ \E ps \in FieldPlayers : \E es \in FieldEnemies :
           game = [fresh EXCEPT !.player_units = ps, !.enemy_units = es,
                                !.next_unit_id = 5]
    /\ saved = fresh
    /\ prev = game
    /\ before = None
    /\ ret = [op |-> "update", side |-> "none", index |-> 0,
              delta |-> F32Dec(1, 60)]
    /\ cmds = 0
    /\ others = 0
    /\ ticks = 0
    /\ lock = Free
    /\ pc = Idle
    /\ loop = Sleeping
    /\ counter = NoInputs
    /\ pressed = NoInputs
    /\ issued = <<>>
    /\ ClientInit
    /\ ServerInit

TurnTaken(side, index, st) ==
    /\ game' = st.g
    /\ prev' = game
    /\ ret' = [op |-> "turn", side |-> side, index |-> index,
               delta |-> F32Dec(1, 60)]
    /\ ticks' = ticks + 1
    /\ UNCHANGED <<saved, before, cmds, others, clientVars, serverVars,
                   issued, lockVars, loopVars>>

\* for i in 0..self.player_units.len()
PlayerUnitTurn ==
    /\ ticks < Len(game.player_units)
    /\ TurnTaken("player", ticks + 1,
                 PlayerTurn([g |-> game, units_to_remove |-> {}], ticks + 1,
                            F32Dec(1, 60)))

\* for i in 0..self.enemy_units.len()
EnemyUnitTurn ==
    /\ ticks >= Len(game.player_units)
    /\ ticks < Len(game.player_units) + Len(game.enemy_units)
    /\ TurnTaken("enemy", ticks + 1 - Len(game.player_units),
                 EnemyTurn([g |-> game, units_to_remove |-> {}],
                           ticks + 1 - Len(game.player_units), F32Dec(1, 60)))

NextTurn == PlayerUnitTurn \/ EnemyUnitTurn

SpecTurn == InitTurn /\ [][NextTurn]_vars

(***************************************************************************)
(* The game loop left alone (SpecIdle): no key, no click, the minute timer *)
(* not yet due, no command.  The snapshots are those idle play leaves of a *)
(* fresh state: an enemy unit on its way or at the player base, the base   *)
(* whole, hurt or nearly down.                                             *)
(***************************************************************************)
IdleSnapshots ==
    { [fresh EXCEPT !.player_base_hp = h] :
          h \in {F32FromInt(1000), F32FromInt(10), F32Dec(1, 20)} }
    \cup
    { LET g == spawn_enemy([fresh EXCEPT !.player_base_hp = h], t)
      IN  [g EXCEPT !.enemy_units[1].position = x] :
          h \in {F32FromInt(1000), F32FromInt(10), F32Dec(1, 20)},
          t \in EnemyTypes,
          x \in {F32Zero, F32FromInt(500)} }

InitIdle ==
    /\ saved \in IdleSnapshots
    /\ game = new(saved)
    /\ prev = game
    /\ before = None
    /\ ret = [op |-> "new"]
    /\ cmds = 0
    /\ others = 0
    /\ ticks = 0
    /\ lock = Free
    /\ pc = Idle
    /\ loop = Sleeping
    /\ counter = NoInputs
    /\ pressed = NoInputs
    /\ issued = Ascending(UnitIds(game))
    /\ ClientInit
    /\ ServerInit

IdleInputs ==
    { [delta |-> d, types |-> 0, clicks |-> 0, minute |-> FALSE] :
          d \in {F32Dec(1, 60), F32FromInt(4)} }

NextIdle ==
    \E in \in IdleInputs :
        \E unit_type \in TypeDraws(LoopSpawns(game, in), in.delta) :
            \E draws \in KnockbackDraws(LoopSpawns(game, in)) :
                Tick(in, unit_type, draws)

SpecIdle == InitIdle /\ [][NextIdle]_vars

(***************************************************************************)
(* Remote profile store (multiplayer-server/src/main.rs).  A name is a     *)
(* sequence of characters; player ids are the numbers the store hands out  *)
(* (Uuid::new_v4 in the code: fresh and opaque).                           *)
(***************************************************************************)
IsSpace(ch) == ch = " "

\* char::to_lowercase on the characters of the model
LowerChar(ch) ==
    CASE ch = "A" -> "a"
      [] ch = "B" -> "b"
      [] OTHER -> ch

\* str::to_lowercase
ToLower(str) == [i \in 1..Len(str) |-> LowerChar(str[i])]

RECURSIVE TrimStart(_)
TrimStart(str) ==
    IF str # <<>> /\ IsSpace(Head(str)) THEN TrimStart(Tail(str)) ELSE str

RECURSIVE TrimEnd(_)
TrimEnd(str) ==
    IF str # <<>> /\ IsSpace(str[Len(str)])
    THEN TrimEnd(SubSeq(str, 1, Len(str) - 1))
    ELSE str

\* str::trim
Trim(str) == TrimEnd(TrimStart(str))

\* normalize_name without to_lowercase
normalize_name_keeps_case(name) == Trim(name)

\* normalize_name
normalize_name(name) == ToLower(Trim(name))

\* PlayerProgress::default()
DefaultProgress ==
    [stage |-> 1,
     coins |-> 0,
     upgrades |-> NewUpgrades,
     max_player_base_hp |-> F32FromInt(1000),
     max_enemy_base_hp |-> F32FromInt(500)]

\* The id of the next profile: one no profile has.
FreshId(ps) == CHOOSE i \in 1..(Cardinality(DOMAIN ps) + 1) : i \notin DOMAIN ps

\* PlayerProfile::new
NewProfile(ps, player_name, time) ==
    [player_id |-> FreshId(ps),
     player_name |-> player_name,
     progress |-> DefaultProgress,
     last_update |-> time]

MsgWelcomeBack == "Welcome back! Progress loaded."
MsgCreated == "Account created!"

\* build_register_response
build_register_response(profile, message) ==
    [player_id |-> profile.player_id,
     player_name |-> profile.player_name,
     message |-> message,
     progress |-> profile.progress,
     last_update |-> profile.last_update]

\* HashMap::insert
Insert(map, key, value) ==
    [k \in DOMAIN map \cup {key} |-> IF k = key THEN value ELSE map[k]]

ErrNameRequired == [error |-> "Player name is required"]
ErrPlayerNotFound == [error |-> "Player not found"]

\* What a handler does while it holds the store's lock: the maps after it,
\* the response, and the profile it goes on to save once the lock is
\* released (None: it saves nothing).
Handled(ps, idx, status, body, save) ==
    [players |-> ps, name_index |-> idx, status |-> status, body |-> body,
     save |-> save]

\* register_player without the check of the trimmed name
register_player_accepts_blank(ps, idx, time, player_name) ==
    LET requested_name == Trim(player_name)
        lower_name == normalize_name(requested_name)
        known == /\ lower_name \in DOMAIN idx
                 /\ idx[lower_name] \in DOMAIN ps
        profile == NewProfile(ps, requested_name, time)
    IN  IF known
        THEN Handled(ps, idx, 200,
                     build_register_response(ps[idx[lower_name]], MsgWelcomeBack),
                     None)
        ELSE Handled(Insert(ps, profile.player_id, profile),
                     Insert(idx, lower_name, profile.player_id),
                     200, build_register_response(profile, MsgCreated), Some(profile))

\* register_player
register_player(ps, idx, time, player_name) ==
    LET requested_name == Trim(player_name)
        lower_name == normalize_name(requested_name)
        known == /\ lower_name \in DOMAIN idx
                 /\ idx[lower_name] \in DOMAIN ps
        profile == NewProfile(ps, requested_name, time)
    IN  IF requested_name = <<>>
        THEN Handled(ps, idx, 400, ErrNameRequired, None)
        ELSE IF known
        THEN Handled(ps, idx, 200,
                     build_register_response(ps[idx[lower_name]], MsgWelcomeBack),
                     None)
        ELSE Handled(Insert(ps, profile.player_id, profile),
                     Insert(idx, lower_name, profile.player_id),
                     200, build_register_response(profile, MsgCreated), Some(profile))

\* sync_player without the new last_update
sync_player_keeps_time(ps, idx, time, player_id, progress) ==
    LET profile == [ps[player_id] EXCEPT !.progress = progress]
    IN  IF player_id \in DOMAIN ps
        THEN Handled([ps EXCEPT ![player_id] = profile], idx, 200, profile,
                     Some(profile))
        ELSE Handled(ps, idx, 404, ErrPlayerNotFound, None)

\* sync_player
sync_player(ps, idx, time, player_id, progress) ==
    LET profile == [ps[player_id] EXCEPT !.progress = progress,
                                         !.last_update = time]
    IN  IF player_id \in DOMAIN ps
        THEN Handled([ps EXCEPT ![player_id] = profile], idx, 200, profile,
                     Some(profile))
        ELSE Handled(ps, idx, 404, ErrPlayerNotFound, None)

\* get_player
get_player(ps, idx, player_id) ==
    IF player_id \in DOMAIN ps
    THEN Handled(ps, idx, 200, ps[player_id], None)
    ELSE Handled(ps, idx, 404, ErrPlayerNotFound, None)

\* list_players
list_players(ps, idx) ==
    Handled(ps, idx, 200,
            { [player_id |-> ps[i].player_id,
               player_name |-> ps[i].player_name,
               stage |-> ps[i].progress.stage,
               last_update |-> ps[i].last_update] : i \in DOMAIN ps },
            None)

(***************************************************************************)
(* Progress synchronisation client (src-tauri/src/multiplayer.rs) and its  *)
(* commands (src-tauri/src/lib.rs).  A command is two steps: it checks its *)
(* preconditions and sends the request, which the store handles; later the *)
(* response arrives and the command completes.  The store's file writes    *)
(* are assumed to succeed.                                                 *)
(***************************************************************************)
ErrNoServerUrl == "No server URL configured"
ErrNotRegistered == "Not registered to server"
ErrServer == "Server returned error"
ErrNetwork == "Failed to reach server"

ServerUrls == {"", "http://store"}

\* The names a user types.
RawNames == {<<" ">>, <<"A">>, <<" ", "a", " ">>, <<"b">>}

\* The names typed on this device.
LocalNames == {<<" ">>, <<"A">>, <<" ", "a", " ">>}

\* Progress another device pushes: its export after clearing stage 1, and
\* after buying base_hp with 3000 coins.
OtherProgress ==
    { export_progress([fresh EXCEPT !.stage = 2, !.coins = 10,
                                    !.enemy_base_hp = F32FromInt(750),
                                    !.max_enemy_base_hp = F32FromInt(750)]),
      export_progress(purchase_upgrade([fresh EXCEPT !.coins = 3000],
                                       "base_hp", "").g) }

\* What another device of this player pushes: its export after clearing stage 1.
SharedProgress == {p \in OtherProgress : p.stage = 2}

\* The ids a request may carry: those the store hands out for the names
\* above; each is unknown until its profile is created.
RequestIds == {1, 2}

\* Placeholders in the record of a step: no handler, no argument, no body;
\* and no status.
Nil == "-"
NoStatus == 0

SyncRet(op, handler, arg, status, body, res) ==
    [op |-> op, handler |-> handler, arg |-> arg, status |-> status,
     body |-> body, res |-> res]

Before ==
    [player_info |-> player_info, last_remote_update |-> last_remote_update,
     sent |-> sent, players |-> players, name_index |-> name_index,
     files |-> files]

Ghosts == prev' = game /\ before' = Before /\ UNCHANGED battleVars

Busy == Cardinality(inflight) + Cardinality(pending)

\* The store handles a request: the maps change under the lock; a handler
\* that saves a profile answers after the write, any other at once.
ServerHandles(h, reply) ==
    /\ players' = h.players
    /\ name_index' = h.name_index
    /\ IF h.save # None
       THEN /\ pending' = pending \cup {[profile |-> Get(h.save), reply |-> reply]}
            /\ inflight' = inflight
       ELSE /\ pending' = pending
            /\ inflight' = inflight \cup reply
    /\ UNCHANGED <<files, now>>

\* The number of a request: the least not in use by a request under way.
InUse == {r.req : r \in inflight} \cup {Get(w.reply).req : w \in {v \in pending : v.reply # None}}
FreeReq == CHOOSE n \in 1..(Cardinality(InUse) + 1) : n \notin InUse

Response(kind, h, name) ==
    [req |-> FreeReq, kind |-> kind, status |-> h.status, body |-> h.body,
     name |-> name]

\* A command that fails before it sends anything.
Refused(op, err) ==
    /\ ret' = SyncRet(op, Nil, Nil, NoStatus, Nil, err)
    /\ UNCHANGED <<game, saved, clientVars, serverVars>>

\* save_config -> MultiplayerClient::set_server_url
SaveConfig(url) ==
    /\ cmds < MaxLocal
    /\ cmds' = cmds + 1
    /\ UNCHANGED others
    /\ Ghosts
    /\ server_url' = url
    /\ ret' = SyncRet("save_config", Nil, url, NoStatus, Nil, "Ok")
    /\ UNCHANGED <<game, saved, player_info, last_remote_update, inflight, sent,
                   serverVars>>

\* mp_register_player sending its request whatever the server address
MpRegisterSendUnchecked(player_name) ==
    /\ cmds < MaxLocal
    /\ cmds' = cmds + 1
    /\ UNCHANGED others
    /\ Ghosts
    /\ LET h == register_player(players, name_index, now, player_name)
       IN  /\ Busy < MaxInflight
           /\ ServerHandles(h, Some(Response("register", h, player_name)))
           /\ sent' = sent + 1
           /\ ret' = SyncRet("mp_register_player", "register_player",
                             player_name, h.status, h.body, "sent")
           /\ UNCHANGED <<game, saved, server_url, player_info,
                          last_remote_update>>

\* mp_register_player up to the request of MultiplayerClient::register_player,
\* the store having room for `limit' requests at a time
MpRegisterSendWithin(limit, player_name) ==
    /\ cmds < MaxLocal
    /\ cmds' = cmds + 1
    /\ UNCHANGED others
    /\ Ghosts
    /\ IF server_url = ""
       THEN Refused("mp_register_player", ErrNoServerUrl)
       ELSE LET h == register_player(players, name_index, now, player_name)
            IN  /\ Busy < limit
                /\ ServerHandles(h, Some(Response("register", h, player_name)))
                /\ sent' = sent + 1
                /\ ret' = SyncRet("mp_register_player", "register_player",
                                  player_name, h.status, h.body, "sent")
                /\ UNCHANGED <<game, saved, server_url, player_info,
                               last_remote_update>>

MpRegisterSend(player_name) == MpRegisterSendWithin(MaxInflight, player_name)

\* mp_update_state up to the request of MultiplayerClient::sync_progress
MpUpdateSendWithin(limit) ==
    /\ cmds < MaxLocal
    /\ cmds' = cmds + 1
    /\ UNCHANGED others
    /\ Ghosts
    /\ LET progress == export_progress(game)
       IN  IF player_info = None
           THEN Refused("mp_update_state", ErrNotRegistered)
           ELSE IF server_url = ""
           THEN Refused("mp_update_state", ErrNoServerUrl)
           ELSE LET h == sync_player(players, name_index, now,
                                     Get(player_info).player_id, progress)
                IN  /\ Busy < limit
                    /\ ServerHandles(h, Some(Response("sync", h, <<>>)))
                    /\ sent' = sent + 1
                    /\ ret' = SyncRet("mp_update_state", "sync_player",
                                      [player_id |-> Get(player_info).player_id,
                                       progress |-> progress],
                                      h.status, h.body, "sent")
                    /\ UNCHANGED <<game, saved, server_url, player_info,
                                   last_remote_update>>

MpUpdateSend == MpUpdateSendWithin(MaxInflight)

\* mp_pull_state up to the request of MultiplayerClient::fetch_profile
MpPullSendWithin(limit) ==
    /\ cmds < MaxLocal
    /\ cmds' = cmds + 1
    /\ UNCHANGED others
    /\ Ghosts
    /\ IF player_info = None
       THEN Refused("mp_pull_state", ErrNotRegistered)
       ELSE IF server_url = ""
       THEN Refused("mp_pull_state", ErrNoServerUrl)
       ELSE LET h == get_player(players, name_index, Get(player_info).player_id)
            IN  /\ Busy < limit
                /\ ServerHandles(h, Some(Response("fetch", h, <<>>)))
                /\ sent' = sent + 1
                /\ ret' = SyncRet("mp_pull_state", "get_player",
                                  Get(player_info).player_id, h.status, h.body, "sent")
                /\ UNCHANGED <<game, saved, server_url, player_info,
                               last_remote_update>>

MpPullSend == MpPullSendWithin(MaxInflight)

\* mark_remote_update taking an equal timestamp for a newer one
mark_remote_update_not_strict(current, timestamp) ==
    IF current = None \/ timestamp >= Get(current)
    THEN [last |-> Some(timestamp), applied |-> TRUE]
    ELSE [last |-> current, applied |-> FALSE]

\* MultiplayerClient::mark_remote_update: the timestamp kept and the result.
mark_remote_update(current, timestamp) ==
    IF current = None \/ timestamp > Get(current)
    THEN [last |-> Some(timestamp), applied |-> TRUE]
    ELSE [last |-> current, applied |-> FALSE]

IsSuccess(status) == status >= 200 /\ status < 300

\* A response that is not a success ends the command with an error.
Rejected(op, r) ==
    /\ ret' = SyncRet(op, Nil, r.req, r.status, r.body, ErrServer)
    /\ UNCHANGED <<game, saved, player_info, last_remote_update>>

\* The rest of mp_register_player, once the response is there.
MpRegisterDone(r) ==
    /\ r \in inflight
    /\ r.kind = "register"
    /\ inflight' = inflight \ {r}
    /\ Ghosts
    /\ IF ~IsSuccess(r.status)
       THEN Rejected("mp_register_player", r)
       ELSE /\ player_info' = Some([player_id |-> r.body.player_id,
                                    player_name |-> r.name])
            /\ last_remote_update' = Some(r.body.last_update)
            /\ game' = import_progress(game, r.body.progress)
            /\ saved' = game'
            /\ ret' = SyncRet("mp_register_player", Nil, r.req, r.status,
                              r.body, "Ok")
    /\ UNCHANGED <<cmds, others, server_url, sent, serverVars>>

\* The rest of mp_update_state.
MpUpdateDone(r) ==
    /\ r \in inflight
    /\ r.kind = "sync"
    /\ inflight' = inflight \ {r}
    /\ Ghosts
    /\ IF ~IsSuccess(r.status)
       THEN Rejected("mp_update_state", r)
       ELSE /\ last_remote_update' = Some(r.body.last_update)
            /\ ret' = SyncRet("mp_update_state", Nil, r.req, r.status,
                              r.body, "Ok")
            /\ UNCHANGED <<game, saved, player_info>>
    /\ UNCHANGED <<cmds, others, server_url, sent, serverVars>>

\* The rest of mp_pull_state.
MpPullDone(r) ==
    /\ r \in inflight
    /\ r.kind = "fetch"
    /\ inflight' = inflight \ {r}
    /\ Ghosts
    /\ IF ~IsSuccess(r.status)
       THEN Rejected("mp_pull_state", r)
       ELSE LET m == mark_remote_update(last_remote_update, r.body.last_update)
            IN  /\ last_remote_update' = m.last
                /\ game' = IF m.applied
                           THEN import_progress(game, r.body.progress)
                           ELSE game
                /\ saved' = IF m.applied THEN game' ELSE saved
                /\ ret' = SyncRet("mp_pull_state", Nil, r.req, r.status,
                                  r.body, IF m.applied THEN "Ok(true)" ELSE "Ok(false)")
                /\ UNCHANGED player_info
    /\ UNCHANGED <<cmds, others, server_url, sent, serverVars>>

\* The transport fails: the command ends with an error and no response.
NetworkError(r) ==
    /\ r \in inflight
    /\ inflight' = inflight \ {r}
    /\ Ghosts
    /\ ret' = SyncRet(r.kind, Nil, r.req, NoStatus, Nil, ErrNetwork)
    /\ UNCHANGED <<game, saved, cmds, others, server_url, player_info,
                   last_remote_update, sent, serverVars>>

\* save_profile, after the handler released the lock; then the response.
ServerSaveProfile(w) ==
    /\ w \in pending
    /\ pending' = pending \ {w}
    /\ files' = Insert(files, w.profile.player_id, w.profile)
    /\ inflight' = inflight \cup w.reply
    /\ Ghosts
    /\ ret' = SyncRet("save_profile", Nil, w.profile.player_id, NoStatus,
                      w.profile, "Ok")
    /\ UNCHANGED <<game, saved, cmds, others, server_url, player_info,
                   last_remote_update, sent, players, name_index, now>>

\* A second passes on the server's clock.
ClockTick ==
    /\ now < MaxClock
    /\ now' = now + 1
    /\ Ghosts
    /\ ret' = SyncRet("clock", Nil, Nil, NoStatus, Nil, "Ok")
    /\ UNCHANGED <<game, saved, cmds, others, clientVars, players, name_index,
                   files, pending>>

\* A request of another device, handled by the store.
OtherRequestWithin(limit, handler, arg, h) ==
    /\ others' = others + 1
    /\ Busy < limit
    /\ ServerHandles(h, None)
    /\ Ghosts
    /\ ret' = SyncRet("other", handler, arg, h.status, h.body, "sent")
    /\ UNCHANGED <<game, saved, cmds, server_url, player_info,
                   last_remote_update, sent>>

OtherRequest(handler, arg, h) == OtherRequestWithin(MaxInflight, handler, arg, h)

OtherRegister(player_name) ==
    OtherRequest("register_player", player_name,
                 register_player(players, name_index, now, player_name))

OtherSync(player_id, progress) ==
    OtherRequest("sync_player", [player_id |-> player_id, progress |-> progress],
                 sync_player(players, name_index, now, player_id, progress))

OtherGet(player_id) ==
    OtherRequest("get_player", player_id,
                 get_player(players, name_index, player_id))

OtherList ==
    OtherRequest("list_players", Nil, list_players(players, name_index))

\* run() sets the client's server address from the configuration file.
InitSync ==
    /\ game = [fresh EXCEPT !.coins = 3000]
    /\ saved = game
    /\ prev = game
    /\ server_url \in ServerUrls
    /\ player_info = None
    /\ last_remote_update = None
    /\ inflight = {}
    /\ sent = 0
    /\ ServerInit
    /\ before = Before
    /\ ret = SyncRet("new", Nil, Nil, NoStatus, Nil, "Ok")
    /\ cmds = 0
    /\ others = 0
    /\ ticks = 0
    /\ lock = Free
    /\ pc = Idle
    /\ loop = Sleeping
    /\ counter = NoInputs
    /\ pressed = NoInputs
    /\ issued = <<>>

NextSync ==
    \/ \E url \in ServerUrls : SaveConfig(url)
    \/ \E name \in LocalNames : MpRegisterSend(name)
    \/ MpUpdateSend
    \/ MpPullSend
    \/ \E r \in inflight : MpRegisterDone(r)
    \/ \E r \in inflight : MpUpdateDone(r)
    \/ \E r \in inflight : MpPullDone(r)
    \/ \E r \in inflight : NetworkError(r)
    \/ \E w \in pending : ServerSaveProfile(w)
    \/ ClockTick
    \/ \E id \in DOMAIN players, p \in SharedProgress :
           others < MaxOther /\ OtherSync(id, p)

SpecSync == InitSync /\ [][NextSync]_vars

\* The same client and store, the local game having cleared its first stage
\* before the player turns to the server (SpecProgress): a battle is under
\* way, both bases have been hit and an automatic purchase is configured.
InitProgress ==
    /\ game = [fresh EXCEPT
                   !.stage = 2, !.coins = 6010,
                   !.enemy_base_hp = F32FromInt(700),
                   !.max_enemy_base_hp = F32FromInt(750),
                   !.player_base_hp = F32FromInt(996),
                   !.player_units = <<Unit(6, "Small", F32FromInt(300),
                                           F32FromInt(10), F32FromInt(5),
                                           F32FromInt(100), TRUE)>>,
                   !.enemy_units = <<Unit(7, "Small", F32FromInt(800),
                                          F32FromInt(15), F32FromInt(4),
                                          F32FromInt(90), FALSE)>>,
                   !.next_unit_id = 8,
                   !.click_count = 3,
                   !.type_count = 5,
                   !.auto_buy = [enabled |-> TRUE, upgrade_type |-> "hp",
                                 unit_type |-> "small",
                                 remaining_time |-> F32FromInt(10)]]
    /\ saved = game
    /\ prev = game
    /\ server_url \in ServerUrls
    /\ player_info = None
    /\ last_remote_update = None
    /\ inflight = {}
    /\ sent = 0
    /\ ServerInit
    /\ before = Before
    /\ ret = SyncRet("new", Nil, Nil, NoStatus, Nil, "Ok")
    /\ cmds = 0
    /\ others = 0
    /\ ticks = 0
    /\ lock = Free
    /\ pc = Idle
    /\ loop = Sleeping
    /\ counter = NoInputs
    /\ pressed = NoInputs
    /\ issued = <<>>

SpecProgress == InitProgress /\ [][NextSync]_vars

(***************************************************************************)
(* Commands that overlap (SpecRace): the commands are async and the store  *)
(* runs its handlers on several workers, so a second request may be sent   *)
(* while the first is still being handled or answered.                     *)
(***************************************************************************)
MaxRace == 2        \* requests of this device under way at one time

InitRace == InitSync /\ server_url = "http://store"

NextRace ==
    \/ MpRegisterSendWithin(MaxRace, <<"A">>)
    \/ MpUpdateSendWithin(MaxRace)
    \/ MpPullSendWithin(MaxRace)
    \/ \E r \in inflight : MpRegisterDone(r)
    \/ \E r \in inflight : MpUpdateDone(r)
    \/ \E r \in inflight : MpPullDone(r)
    \/ \E w \in pending : ServerSaveProfile(w)
    \/ ClockTick

SpecRace == InitRace /\ [][NextRace]_vars

(***************************************************************************)
(* The lock on GameState (SpecLock): the game loop and the three           *)
(* synchronization commands, each step being what a task does between two  *)
(* points where it may wait: taking the lock, the work under it, the HTTP  *)
(* call.  The store is reduced to what its answer may be.                  *)
(***************************************************************************)
MaxCalls == 2       \* synchronization commands issued in one run

\* What the store may answer a register or a fetch with.
Replies ==
    { [player_id |-> 1, progress |-> p, last_update |-> t] :
          p \in SharedProgress, t \in {1} }

At(op, at, body) == [op |-> op, at |-> at, body |-> body]

LockFrame == UNCHANGED <<before, others, server_url, inflight, sent, serverVars,
                         ticks, issued, loopVars>>

\* InputCounter::consume_inputs: what it returns and leaves behind.
consume_inputs(c) ==
    [clicks |-> c.clicks, types |-> c.types, counter |-> NoInputs]

\* The loop thread: input_counter_clone.lock() and consume_inputs(), the
\* guard dropped at the end of the block.
LoopConsume ==
    /\ ticks < MaxTicks
    /\ loop.at = "sleep"
    /\ loop' = [at |-> "consumed",
                clicks |-> consume_inputs(counter).clicks,
                types |-> consume_inputs(counter).types]
    /\ counter' = consume_inputs(counter).counter
    /\ UNCHANGED <<game, saved, ret, prev, before, cmds, others, clientVars,
                   serverVars, ticks, issued, lockVars, pressed>>

\* The loop thread: game_state_loop.lock()
LoopLock ==
    /\ loop.at = "consumed"
    /\ lock = Free
    /\ lock' = "loop"
    /\ loop' = [loop EXCEPT !.at = "locked"]
    /\ UNCHANGED <<game, saved, ret, prev, before, cmds, others, clientVars,
                   serverVars, ticks, issued, pc, counter, pressed>>

\* The loop thread: spawn_unit for the inputs it took, and update.
LoopUpdate(in, unit_type, draws) ==
    /\ loop.at = "locked"
    /\ in.types = loop.types
    /\ in.clicks = loop.clicks
    /\ Iteration(in, unit_type, draws)
    /\ loop' = [loop EXCEPT !.at = "updated"]
    /\ UNCHANGED <<lockVars, counter, pressed>>

\* GameStateUpdate, the payload of the game-update event.
GameStateUpdate(g) ==
    [op |-> "game-update",
     player_units |-> g.player_units,
     enemy_units |-> g.enemy_units,
     player_base_hp |-> g.player_base_hp,
     enemy_base_hp |-> g.enemy_base_hp,
     coins |-> g.coins,
     stage |-> g.stage,
     click_count |-> g.click_count,
     type_count |-> g.type_count,
     upgrades |-> g.upgrades]

\* The loop thread: app_handle.emit("game-update", ..), and the guard
\* dropped at the end of the iteration.
LoopEmit ==
    /\ loop.at = "updated"
    /\ ret' = GameStateUpdate(game)
    /\ loop' = Sleeping
    /\ lock' = Free
    /\ UNCHANGED <<game, saved, prev, before, cmds, others, clientVars,
                   serverVars, ticks, issued, pc, counter, pressed>>

\* mp_update_state: game_state.lock()
UpdateLock ==
    /\ cmds < MaxCalls
    /\ pc = Idle
    /\ lock = Free
    /\ lock' = "command"
    /\ pc' = At("mp_update_state", "exporting", None)
    /\ cmds' = cmds + 1
    /\ UNCHANGED <<game, saved, ret, prev, player_info, last_remote_update>>
    /\ LockFrame

\* mp_update_state, had the guard lived on to the end of the command.
UpdateExportHolds ==
    /\ pc.op = "mp_update_state"
    /\ pc.at = "exporting"
    /\ lock' = lock
    /\ pc' = At("mp_update_state", "exported", Some(export_progress(game)))
    /\ UNCHANGED <<game, saved, ret, prev, cmds, player_info,
                   last_remote_update>>
    /\ LockFrame

\* mp_update_state: export_progress, and the guard dropped at the end of
\* the block.
UpdateExport ==
    /\ pc.op = "mp_update_state"
    /\ pc.at = "exporting"
    /\ lock' = Free
    /\ pc' = At("mp_update_state", "exported", Some(export_progress(game)))
    /\ UNCHANGED <<game, saved, ret, prev, cmds, player_info,
                   last_remote_update>>
    /\ LockFrame

\* mp_update_state: sync_progress(&progress), up to the request it sends.
UpdateCall ==
    /\ pc.op = "mp_update_state"
    /\ pc.at = "exported"
    /\ IF player_info = None
       THEN /\ pc' = Idle
            /\ ret' = [op |-> "mp_update_state", res |-> "Not registered to server"]
       ELSE /\ pc' = At("mp_update_state", "awaiting", pc.body)
            /\ ret' = ret
    /\ UNCHANGED <<game, saved, prev, cmds, player_info, last_remote_update,
                   lock>>
    /\ LockFrame

\* mp_update_state: the answer, or the failure, of the request.
UpdateReturn(ok) ==
    /\ pc.op = "mp_update_state"
    /\ pc.at = "awaiting"
    /\ pc' = Idle
    /\ ret' = [op |-> "mp_update_state", res |-> IF ok THEN "Ok" ELSE "Err"]
    /\ last_remote_update' = IF ok THEN Some(1) ELSE last_remote_update
    /\ UNCHANGED <<game, saved, prev, cmds, player_info, lock>>
    /\ LockFrame

\* mp_register_player: register_player(player_name), up to its request.
RegisterCall ==
    /\ cmds < MaxCalls
    /\ pc = Idle
    /\ pc' = At("mp_register_player", "awaiting", None)
    /\ cmds' = cmds + 1
    /\ UNCHANGED <<game, saved, ret, prev, player_info, last_remote_update,
                   lock>>
    /\ LockFrame

\* mp_register_player: the failure of the request, or its answer, which the
\* client records.
RegisterReturn(reply) ==
    /\ pc.op = "mp_register_player"
    /\ pc.at = "awaiting"
    /\ IF reply = None
       THEN /\ pc' = Idle
            /\ ret' = [op |-> "mp_register_player", res |-> "Err"]
            /\ UNCHANGED <<player_info, last_remote_update>>
       ELSE /\ pc' = At("mp_register_player", "received", reply)
            /\ ret' = ret
            /\ player_info' = Some([player_id |-> Get(reply).player_id,
                                    player_name |-> <<"A">>])
            /\ last_remote_update' = Some(Get(reply).last_update)
    /\ UNCHANGED <<game, saved, prev, cmds, lock>>
    /\ LockFrame

\* mp_register_player: game_state.lock()
RegisterLock ==
    /\ pc.op = "mp_register_player"
    /\ pc.at = "received"
    /\ lock = Free
    /\ lock' = "command"
    /\ pc' = At("mp_register_player", "importing", pc.body)
    /\ UNCHANGED <<game, saved, ret, prev, cmds, player_info,
                   last_remote_update>>
    /\ LockFrame

\* mp_register_player: import_progress, and the guard dropped at the end of
\* the block.
RegisterImport ==
    /\ pc.op = "mp_register_player"
    /\ pc.at = "importing"
    /\ game' = import_progress(game, Get(pc.body).progress)
    /\ saved' = game'
    /\ prev' = game
    /\ lock' = Free
    /\ pc' = Idle
    /\ ret' = [op |-> "mp_register_player", res |-> "Ok"]
    /\ UNCHANGED <<cmds, player_info, last_remote_update>>
    /\ LockFrame

\* mp_pull_state: fetch_profile(), up to its request.
PullCall ==
    /\ cmds < MaxCalls
    /\ pc = Idle
    /\ cmds' = cmds + 1
    /\ IF player_info = None
       THEN /\ pc' = Idle
            /\ ret' = [op |-> "mp_pull_state", res |-> "Not registered to server"]
       ELSE /\ pc' = At("mp_pull_state", "awaiting", None)
            /\ ret' = ret
    /\ UNCHANGED <<game, saved, prev, player_info, last_remote_update, lock>>
    /\ LockFrame

\* mp_pull_state: the failure of the request, or its answer and
\* mark_remote_update.
PullReturn(reply) ==
    /\ pc.op = "mp_pull_state"
    /\ pc.at = "awaiting"
    /\ IF reply = None
       THEN /\ pc' = Idle
            /\ ret' = [op |-> "mp_pull_state", res |-> "Err"]
            /\ UNCHANGED last_remote_update
       ELSE LET m == mark_remote_update(last_remote_update,
                                        Get(reply).last_update)
            IN  /\ last_remote_update' = m.last
                /\ IF m.applied
                   THEN /\ pc' = At("mp_pull_state", "received", reply)
                        /\ ret' = ret
                   ELSE /\ pc' = Idle
                        /\ ret' = [op |-> "mp_pull_state", res |-> "Ok(false)"]
    /\ UNCHANGED <<game, saved, prev, cmds, player_info, lock>>
    /\ LockFrame

\* mp_pull_state: game_state.lock()
PullLock ==
    /\ pc.op = "mp_pull_state"
    /\ pc.at = "received"
    /\ lock = Free
    /\ lock' = "command"
    /\ pc' = At("mp_pull_state", "importing", pc.body)
    /\ UNCHANGED <<game, saved, ret, prev, cmds, player_info,
                   last_remote_update>>
    /\ LockFrame

\* mp_pull_state: import_progress, and the guard dropped at the end of the
\* block.
PullImport ==
    /\ pc.op = "mp_pull_state"
    /\ pc.at = "importing"
    /\ game' = import_progress(game, Get(pc.body).progress)
    /\ saved' = game'
    /\ prev' = game
    /\ lock' = Free
    /\ pc' = Idle
    /\ ret' = [op |-> "mp_pull_state", res |-> "Ok(true)"]
    /\ UNCHANGED <<cmds, player_info, last_remote_update>>
    /\ LockFrame

InitLock ==
    /\ game = [fresh EXCEPT !.coins = 3000]
    /\ saved = game
    /\ prev = game
    /\ before = None
    /\ ret = [op |-> "new"]
    /\ cmds = 0
    /\ others = 0
    /\ ticks = 0
    /\ lock = Free
    /\ pc = Idle
    /\ loop = Sleeping
    /\ counter = NoInputs
    /\ pressed = NoInputs
    /\ issued = <<>>
    /\ server_url = "http://store"
    /\ player_info \in {None, Some([player_id |-> 1, player_name |-> <<"A">>])}
    /\ last_remote_update = None
    /\ inflight = {}
    /\ sent = 0
    /\ ServerInit

NextLock ==
    \/ LoopConsume
    \/ LoopLock
    \/ \E in \in IdleInputs :
           \E unit_type \in TypeDraws(LoopSpawns(game, in), in.delta) :
               \E draws \in KnockbackDraws(LoopSpawns(game, in)) :
                   LoopUpdate(in, unit_type, draws)
    \/ LoopEmit
    \/ UpdateLock
    \/ UpdateExport
    \/ UpdateCall
    \/ \E ok \in BOOLEAN : UpdateReturn(ok)
    \/ RegisterCall
    \/ \E reply \in {None} \cup {Some(r) : r \in Replies} : RegisterReturn(reply)
    \/ RegisterLock
    \/ RegisterImport
    \/ PullCall
    \/ \E reply \in {None} \cup {Some(r) : r \in Replies} : PullReturn(reply)
    \/ PullLock
    \/ PullImport

SpecLock == InitLock /\ [][NextLock]_vars

(***************************************************************************)
(* The input hook, the game loop and the commands that write GameState     *)
(* (SpecLoop): the hook thread counts key presses and clicks under the     *)
(* counter's lock, the loop thread takes them and runs its iteration, and  *)
(* purchase_upgrade and reset_stage run under the lock on GameState.       *)
(***************************************************************************)
MaxPresses == 2     \* inputs the hook records in one run

\* InputCounter::add_click
add_click(c) == [c EXCEPT !.clicks = c.clicks + 1]

\* InputCounter::add_type, had it counted the key press twice.
add_type_twice(c) == [c EXCEPT !.types = c.types + 2]

\* InputCounter::add_type
add_type(c) == [c EXCEPT !.types = c.types + 1]

\* The hook thread's callback on EventType::ButtonPress: counter.lock() and
\* add_click().
HookClick ==
    /\ pressed.clicks + pressed.types < MaxPresses
    /\ counter' = add_click(counter)
    /\ pressed' = [pressed EXCEPT !.clicks = pressed.clicks + 1]
    /\ UNCHANGED <<game, saved, ret, prev, before, cmds, others, clientVars,
                   serverVars, ticks, issued, lockVars, loop>>

\* The hook thread's callback on EventType::KeyPress: counter.lock() and
\* add_type().
HookType ==
    /\ pressed.clicks + pressed.types < MaxPresses
    /\ counter' = add_type(counter)
    /\ pressed' = [pressed EXCEPT !.types = pressed.types + 1]
    /\ UNCHANGED <<game, saved, ret, prev, before, cmds, others, clientVars,
                   serverVars, ticks, issued, lockVars, loop>>

\* #[tauri::command] purchase_upgrade: state.lock()
PurchaseLock(upgrade_type, unit_type) ==
    /\ cmds < MaxBattleCmds
    /\ pc = Idle
    /\ lock = Free
    /\ lock' = "command"
    /\ pc' = At("purchase_upgrade", "locked",
                Some([upgrade_type |-> upgrade_type, unit_type |-> unit_type]))
    /\ cmds' = cmds + 1
    /\ UNCHANGED <<game, saved, ret, prev, before, others, clientVars,
                   serverVars, ticks, issued, loopVars>>

\* What purchase_upgrade leaves, r being what GameState::purchase_upgrade
\* gave for the arguments in.
PurchaseResult(in, r) ==
    /\ game' = r.g
    /\ saved' = IF r.persist THEN r.g ELSE saved
    /\ ret' = [op |-> "purchase_upgrade", upgrade_type |-> in.upgrade_type,
               unit_type |-> in.unit_type, res |-> r.res]

\* #[tauri::command] purchase_upgrade: game.purchase_upgrade(..), and the
\* guard dropped at the return.
PurchaseRun ==
    /\ pc.op = "purchase_upgrade"
    /\ pc.at = "locked"
    /\ PurchaseResult(Get(pc.body),
                      purchase_upgrade(game, Get(pc.body).upgrade_type,
                                       Get(pc.body).unit_type))
    /\ prev' = game
    /\ lock' = Free
    /\ pc' = Idle
    /\ UNCHANGED <<before, cmds, others, clientVars, serverVars, ticks, issued,
                   loopVars>>

\* #[tauri::command] reset_stage: state.lock()
ResetLock ==
    /\ cmds < MaxBattleCmds
    /\ pc = Idle
    /\ lock = Free
    /\ lock' = "command"
    /\ pc' = At("reset_stage", "locked", None)
    /\ cmds' = cmds + 1
    /\ UNCHANGED <<game, saved, ret, prev, before, others, clientVars,
                   serverVars, ticks, issued, loopVars>>

\* #[tauri::command] reset_stage: game.reset_current_stage(), and the guard
\* dropped at the return.
ResetRun ==
    /\ pc.op = "reset_stage"
    /\ pc.at = "locked"
    /\ game' = reset_current_stage(game)
    /\ saved' = game'
    /\ ret' = [op |-> "reset_stage"]
    /\ prev' = game
    /\ lock' = Free
    /\ pc' = Idle
    /\ UNCHANGED <<before, cmds, others, clientVars, serverVars, ticks, issued,
                   loopVars>>

\* What an iteration may run with: the inputs the loop thread took, the time
\* since the last iteration, and whether a minute has passed.
TakenInputs ==
    { [delta |-> F32Dec(1, 60), types |-> loop.types, clicks |-> loop.clicks,
       minute |-> FALSE],
      [delta |-> F32FromInt(4), types |-> loop.types, clicks |-> loop.clicks,
       minute |-> FALSE],
      [delta |-> F32FromInt(4), types |-> loop.types, clicks |-> loop.clicks,
       minute |-> TRUE] }

InitLoop ==
    /\ game = [fresh EXCEPT !.coins = 3000]
    /\ saved = game
    /\ prev = game
    /\ before = None
    /\ ret = [op |-> "new"]
    /\ cmds = 0
    /\ others = 0
    /\ ticks = 0
    /\ lock = Free
    /\ pc = Idle
    /\ loop = Sleeping
    /\ counter = NoInputs
    /\ pressed = NoInputs
    /\ issued = <<>>
    /\ ClientInit
    /\ ServerInit

\* The iterations of the loop thread.
LoopSteps ==
    \/ LoopConsume
    \/ LoopLock
    \/ \E in \in TakenInputs :
           \E unit_type \in TypeDraws(LoopSpawns(game, in), in.delta) :
               \E draws \in KnockbackDraws(LoopSpawns(game, in)) :
                   LoopUpdate(in, unit_type, draws)
    \/ LoopEmit

NextLoop ==
    \/ HookClick
    \/ HookType
    \/ LoopSteps

SpecLoop == InitLoop /\ [][NextLoop]_vars

\* The loop thread and the commands that write GameState (SpecWrite).
NextWrite ==
    \/ LoopSteps
    \/ PurchaseLock("hp", "small")
    \/ PurchaseRun
    \/ ResetLock
    \/ ResetRun

SpecWrite == InitLoop /\ [][NextWrite]_vars

(***************************************************************************)
(* The store alone, under the requests of any number of devices.           *)
(***************************************************************************)
NextStore ==
    \/ \E name \in RawNames : others < MaxStoreReqs /\ OtherRegister(name)
    \/ \E id \in RequestIds, p \in OtherProgress :
           others < MaxStoreReqs /\ OtherSync(id, p)
    \/ \E id \in RequestIds : others < MaxStoreReqs /\ OtherGet(id)
    \/ others < MaxStoreReqs /\ OtherList
    \/ \E w \in pending : ServerSaveProfile(w)
    \/ ClockTick

SpecStore == InitSync /\ [][NextStore]_vars

\* The store with several workers (SpecWorkers): a request is handled while
\* the file write of an earlier one is still to come.
NextWorkers ==
    \/ \E name \in RawNames :
           /\ others < MaxStoreReqs
           /\ OtherRequestWithin(MaxRace, "register_player", name,
                                 register_player(players, name_index, now, name))
    \/ \E id \in RequestIds, p \in OtherProgress :
           /\ others < MaxStoreReqs
           /\ OtherRequestWithin(MaxRace, "sync_player",
                                 [player_id |-> id, progress |-> p],
                                 sync_player(players, name_index, now, id, p))
    \/ \E w \in pending : ServerSaveProfile(w)
    \/ ClockTick

SpecWorkers == InitSync /\ [][NextWorkers]_vars

(***************************************************************************)
(* Properties of the economy (SpecEconomy).                                *)
(***************************************************************************)
IsPurchase == ret.op = "purchase_upgrade"
PurchasedCounter == Counter(ret.upgrade_type, ret.unit_type)

\* C2: a purchase_upgrade issued with coins < cost fails with the
\* insufficient-funds error and leaves the whole GameState as it was.
Thm_C2_InsufficientFunds ==
    (IsPurchase /\ prev.coins < get_cost(prev.upgrades, ret.upgrade_type, ret.unit_type))
        => (ret.res = ErrNotEnoughCoins /\ game = prev)

\* C2 witness: a refused purchase of a counter at level 10 by a player who
\* could have paid the level-0 price.
Wit_C2_InsufficientFunds ==
    /\ IsPurchase
    /\ PurchasedCounter # NoCounter
    /\ prev.upgrades[PurchasedCounter] = 10
    /\ prev.coins >= 3000
    /\ ret.res = ErrNotEnoughCoins
    /\ game = prev

\* C3 (as claimed): whatever the coin balance, a purchase_upgrade for a
\* pair outside the enumeration fails with the invalid-axis error.
Cex_C3_InvalidAxisAlways ==
    (IsPurchase /\ PurchasedCounter = NoCounter) => ret.res = ErrInvalidUpgrade

\* C9: a successful purchase debits exactly the cost of the purchased
\* counter's level before the purchase, raises that counter by 10 and leaves
\* the other ten alone; and the cost of a pair is that of its own counter's
\* level, whatever the other counters are.
Thm_C9_PurchaseEffect ==
    /\ (IsPurchase /\ ret.res = OkTrue) =>
           /\ PurchasedCounter # NoCounter
           /\ game.coins = prev.coins - CostOfLevel(prev.upgrades[PurchasedCounter])
           /\ game.upgrades[PurchasedCounter] = prev.upgrades[PurchasedCounter] + 10
           /\ \A d \in Counters \ {PurchasedCounter} :
                  game.upgrades[d] = prev.upgrades[d]
    /\ \A in \in PurchaseInputs :
           LET c == Counter(in[1], in[2])
           IN  c # NoCounter =>
                   get_cost(game.upgrades, in[1], in[2])
                       = get_cost([NewUpgrades EXCEPT ![c] = game.upgrades[c]], in[1], in[2])

\* C9 witness: a second purchase of a counter, at the level-10 price, made
\* while another counter is raised as well.
Wit_C9_PurchaseEffect ==
    /\ IsPurchase
    /\ ret.res = OkTrue
    /\ prev.upgrades[PurchasedCounter] = 10
    /\ game.coins = prev.coins - 18575
    /\ \E d \in Counters \ {PurchasedCounter} : prev.upgrades[d] > 0

\* C10: a successful purchase of base_hp leaves player_base_hp equal to
\* max_player_base_hp, which is the old cap times 1.1 and strictly greater;
\* a purchase of any other pair leaves both values as they were.
Thm_C10_BaseHp ==
    IsPurchase =>
        /\ (ret.res = OkTrue /\ PurchasedCounter = "base_hp") =>
               /\ game.player_base_hp = game.max_player_base_hp
               /\ game.max_player_base_hp = F32Mul(prev.max_player_base_hp, F32_1_1)
               /\ F32Lt(prev.max_player_base_hp, game.max_player_base_hp)
        /\ PurchasedCounter # "base_hp" =>
               /\ game.player_base_hp = prev.player_base_hp
               /\ game.max_player_base_hp = prev.max_player_base_hp

\* C10 witness: base_hp bought while the base was damaged.
Wit_C10_BaseHp ==
    /\ IsPurchase
    /\ ret.res = OkTrue
    /\ PurchasedCounter = "base_hp"
    /\ prev.player_base_hp # prev.max_player_base_hp
    /\ game.player_base_hp = game.max_player_base_hp

RECURSIVE TimesDigits(_, _, _)
TimesDigits(digits, k, carry) ==
    IF digits = <<>>
    THEN IF carry = 0 THEN <<>>
         ELSE <<carry % 10>> \o TimesDigits(<<>>, k, carry \div 10)
    ELSE LET v == Head(digits) * k + carry
         IN  <<v % 10>> \o TimesDigits(Tail(digits), k, v \div 10)

RECURSIVE DigitsValue(_)
DigitsValue(digits) ==
    IF digits = <<>> THEN 0 ELSE Head(digits) + 10 * DigitsValue(Tail(digits))

RECURSIVE TimesTwelve(_, _)
TimesTwelve(digits, n) ==
    IF n = 0 THEN digits ELSE TimesTwelve(TimesDigits(digits, 12, 0), n - 1)

\* floor(3000 * 1.2^level) = floor(3000 * 12^level / 10^level), exactly.
ExactFloorCost(level) ==
    LET digits == TimesTwelve(<<0, 0, 0, 3>>, level)
    IN  DigitsValue(SubSeq(digits, level + 1, Len(digits)))

\* C11 (as claimed): at every level a counter reaches by purchases, get_cost
\* is floor(3000 * 1.2^level) and the next purchase of the counter costs
\* more.
Cex_C11_ExactFloorCost ==
    \A c \in Counters :
        /\ CostOfLevel(game.upgrades[c]) = ExactFloorCost(game.upgrades[c])
        /\ CostOfLevel(game.upgrades[c] + 10) > CostOfLevel(game.upgrades[c])

(***************************************************************************)
(* Properties of the profile store (SpecStore).                            *)
(***************************************************************************)
StoreUnchanged == UNCHANGED <<players, name_index, files, pending>>

\* C4: register is idempotent per name.  The id a register returns is the
\* one the index holds under the trimmed, lowercased name; an entry of the
\* index never changes; and a register of a name whose trimmed, lowercased
\* form is already in the index returns that entry's id with the "Welcome
\* back" message and the stored profile, creates no profile and leaves
\* players, name_index and the files as they were.
Thm_C4_RegisterIdempotent ==
    [][ /\ \A k \in DOMAIN name_index :
               k \in DOMAIN name_index' /\ name_index'[k] = name_index[k]
        /\ (ret'.op = "other" /\ ret'.handler = "register_player"
                /\ ret'.status = 200) =>
               LET key == ToLower(Trim(ret'.arg))
               IN  /\ key \in DOMAIN name_index'
                   /\ name_index'[key] = ret'.body.player_id
                   /\ key \in DOMAIN name_index =>
                          /\ ret'.body.player_id = name_index[key]
                          /\ ret'.body.message = MsgWelcomeBack
                          /\ ret'.body = build_register_response(
                                             players[name_index[key]], MsgWelcomeBack)
                          /\ StoreUnchanged
                   /\ key \notin DOMAIN name_index =>
                          /\ ret'.body.message = MsgCreated
                          /\ ret'.body.player_id \notin DOMAIN players
      ]_vars

\* C4 witness: a name registered again in another spelling, after a push
\* replaced the profile's progress: the answer is "Welcome back" with the
\* first id and the pushed progress.
Wit_C4_RegisterIdempotent ==
    /\ ret.op = "other"
    /\ ret.handler = "register_player"
    /\ ret.status = 200
    /\ ret.body.message = MsgWelcomeBack
    /\ ret.arg # ret.body.player_name
    /\ ret.body.progress \in OtherProgress
    /\ players = before.players

\* C5: a sync of a known id stores the submitted progress, stamps
\* last_update with the server's time, keeps player_id and player_name,
\* touches no other profile and returns the updated profile; a get of a
\* known id returns the stored profile; and no step but a sync changes a
\* stored profile.
Thm_C5_SyncReplaces ==
    [][ /\ (ret'.op = "other" /\ ret'.handler = "sync_player"
                /\ ret'.arg.player_id \in DOMAIN players) =>
               LET id == ret'.arg.player_id
               IN  /\ ret'.status = 200
                   /\ DOMAIN players' = DOMAIN players
                   /\ players'[id].progress = ret'.arg.progress
                   /\ players'[id].last_update = now
                   /\ players'[id].player_id = players[id].player_id
                   /\ players'[id].player_name = players[id].player_name
                   /\ ret'.body = players'[id]
                   /\ \A j \in DOMAIN players \ {id} : players'[j] = players[j]
                   /\ name_index' = name_index
        /\ (ret'.op = "other" /\ ret'.handler = "get_player"
                /\ ret'.arg \in DOMAIN players) =>
               /\ ret'.status = 200
               /\ ret'.body = players[ret'.arg]
        /\ ~(ret'.op = "other" /\ ret'.handler = "sync_player") =>
               \A j \in DOMAIN players :
                   j \in DOMAIN players' /\ players'[j] = players[j]
      ]_vars

\* C5 witness: a get that returns the progress a sync stored a second after
\* the profile was created.
Wit_C5_SyncReplaces ==
    /\ ret.op = "other"
    /\ ret.handler = "get_player"
    /\ ret.status = 200
    /\ ret.body.progress \in OtherProgress
    /\ ret.body.last_update = 1
    /\ ret.body.player_name = <<"A">>

\* C6: a register whose name is empty after trimming answers 400, a sync or
\* a get of an unknown id answers 404, and every request answered 400 or 404
\* leaves players, name_index and the files as they were and has no profile
\* written.
Thm_C6_RejectedRequest ==
    [][ ret'.op = "other" =>
            /\ (ret'.handler = "register_player" /\ Trim(ret'.arg) = <<>>) =>
                   ret'.status = 400 /\ ret'.body = ErrNameRequired
            /\ (ret'.handler = "sync_player"
                    /\ ret'.arg.player_id \notin DOMAIN players) =>
                   ret'.status = 404 /\ ret'.body = ErrPlayerNotFound
            /\ (ret'.handler = "get_player" /\ ret'.arg \notin DOMAIN players) =>
                   ret'.status = 404 /\ ret'.body = ErrPlayerNotFound
            /\ ret'.status \in {400, 404} => StoreUnchanged
      ]_vars

\* C6 witness: a sync of an unknown id, refused by a store that holds a
\* profile.
Wit_C6_RejectedRequest ==
    /\ ret.op = "other"
    /\ ret.handler = "sync_player"
    /\ ret.status = 404
    /\ DOMAIN players # {}
    /\ ret.arg.player_id \notin DOMAIN players
    /\ players = before.players
    /\ files = before.files

(***************************************************************************)
(* Properties of the synchronisation client (SpecSync).                    *)
(***************************************************************************)
\* The step of a command that checks its preconditions.
Issued(op) == ret'.op = op /\ cmds' = cmds + 1

\* The step of a command that handles a successful response.
Completed(op) == ret'.op = op /\ cmds' = cmds /\ IsSuccess(ret'.status)

NoRequest ==
    /\ ret'.handler = Nil
    /\ UNCHANGED <<sent, inflight, pending, players, name_index, files>>
    /\ UNCHANGED <<player_info, last_remote_update, game, saved>>

\* C1: a pull whose fetch succeeded returns true exactly when the fetched
\* last_update is greater than the last-seen timestamp or none is recorded;
\* then it imports the fetched progress and records the timestamp;
\* otherwise GameState, the snapshot file and the last-seen timestamp stay
\* as they were.  So a pull that fetches the timestamp already recorded
\* returns false.
Thm_C1_PullApplies ==
    [][ Completed("mp_pull_state") =>
            LET newer == \/ last_remote_update = None
                         \/ ret'.body.last_update > Get(last_remote_update)
            IN  /\ ret'.res \in {"Ok(true)", "Ok(false)"}
                /\ (ret'.res = "Ok(true)") <=> newer
                /\ newer =>
                       /\ game' = import_progress(game, ret'.body.progress)
                       /\ last_remote_update' = Some(ret'.body.last_update)
                /\ ~newer =>
                       /\ game' = game
                       /\ saved' = saved
                       /\ last_remote_update' = last_remote_update
      ]_vars

\* C1 witness: a pull that fetches the profile another device pushed, with
\* the timestamp already recorded here: it returns false and GameState, at
\* stage 2 from the earlier import, stays as it is.
Wit_C1_PullApplies ==
    /\ ret.op = "mp_pull_state"
    /\ ret.res = "Ok(false)"
    /\ ret.body.progress.stage = 2
    /\ before.last_remote_update = Some(ret.body.last_update)
    /\ ret.body.last_update = 1
    /\ game.stage = 2
    /\ game = prev

\* C7: a register issued with an empty server address fails with "No server
\* URL configured", a push or a pull issued with no identity fails with "Not
\* registered to server"; none of them sends a request, and player_info, the
\* last-seen timestamp and GameState stay as they were.
Thm_C7_ClientPreconditions ==
    [][ /\ (Issued("mp_register_player") /\ server_url = "") =>
               ret'.res = ErrNoServerUrl /\ NoRequest
        /\ ((Issued("mp_update_state") \/ Issued("mp_pull_state"))
                /\ player_info = None) =>
               ret'.res = ErrNotRegistered /\ NoRequest
      ]_vars

\* C7 witness: a pull refused for want of an identity, after a register the
\* store rejected.
Wit_C7_ClientPreconditions ==
    /\ ret.op = "mp_pull_state"
    /\ ret.res = ErrNotRegistered
    /\ server_url # ""
    /\ sent = 1
    /\ before.sent = 1
    /\ player_info = None
    /\ inflight = {}

(***************************************************************************)
(* Properties of the battlefield.                                          *)
(***************************************************************************)
UnitsOf(g) ==
    {g.player_units[i] : i \in 1..Len(g.player_units)}
        \cup {g.enemy_units[i] : i \in 1..Len(g.enemy_units)}

SameStats(u, v) ==
    u.max_hp = v.max_hp /\ u.attack = v.attack /\ u.speed = v.speed

\* C12: a unit's max_hp, attack and speed are fixed when it is spawned, from
\* the upgrade levels of that moment: no step changes them for a unit that
\* is on the field before and after it, and a purchase_upgrade command or an
\* automatic purchase in a tick leaves the units it finds with the stats
\* they had.
Thm_C12_StatsFixedAtSpawn ==
    [][ /\ \A u \in UnitsOf(game), v \in UnitsOf(game') :
               u.id = v.id => SameStats(u, v)
        /\ ret'.op = "purchase_upgrade" =>
               /\ Len(game'.player_units) = Len(game.player_units)
               /\ Len(game'.enemy_units) = Len(game.enemy_units)
               /\ \A i \in 1..Len(game.player_units) :
                      SameStats(game.player_units[i], game'.player_units[i])
               /\ \A i \in 1..Len(game.enemy_units) :
                      SameStats(game.enemy_units[i], game'.enemy_units[i])
      ]_vars

\* C12 witness: two Small units on the field, the first spawned before the
\* small_hp upgrade was bought and still at max_hp 10, the second spawned
\* after it at max_hp 11.
Wit_C12_StatsFixedAtSpawn ==
    /\ ret.op = "tick"
    /\ game.upgrades["small_hp"] = 10
    /\ Len(game.player_units) = 2
    /\ game.player_units[1].unit_type = "Small"
    /\ game.player_units[2].unit_type = "Small"
    /\ game.player_units[1].max_hp = F32FromInt(10)
    /\ game.player_units[2].max_hp = F32FromInt(11)

\* C13: at the end of a tick in which the stage was cleared, every player
\* unit still in the roster has position <= 400 and hp > 0.
Thm_C13_ClearRepositions ==
    (ret.op = "tick" /\ ret.clear) =>
        \A i \in 1..Len(game.player_units) :
            /\ F32LessEq(game.player_units[i].position, F32FromInt(400))
            /\ F32Less(F32Zero, game.player_units[i].hp)

\* C13 witness: a clearing tick entered with a Medium unit and a Small unit
\* of 3 hp at the enemy base; the Medium unit is back at 400 with 26.5 hp
\* and the Small unit, whose hp fell to -0.5, is gone.
Wit_C13_ClearRepositions ==
    /\ ret.op = "tick"
    /\ ret.clear
    /\ Len(ret.spawned.player_units) = 2
    /\ ret.spawned.player_units[1].position = F32FromInt(1000)
    /\ ret.spawned.player_units[2].hp = F32FromInt(3)
    /\ Len(game.player_units) = 1
    /\ game.player_units[1].unit_type = "Medium"
    /\ game.player_units[1].position = F32FromInt(400)
    /\ game.player_units[1].hp = F32Dec(265, 10)

InField(u) ==
    /\ F32LessEq(F32Zero, u.position)
    /\ F32LessEq(u.position, F32FromInt(1000))

\* C15: in every state, so after every tick, every unit of player_units and
\* enemy_units has 0 <= position <= 1000; so have the units of a tick right
\* after the loop spawned its player units, and a unit spawned in the tick
\* stands at 0 (player) or 1000 (enemy) when it is created.
Thm_C15_PositionsInField ==
    /\ \A u \in UnitsOf(game) : InField(u)
    /\ ret.op = "tick" =>
           /\ \A u \in UnitsOf(ret.spawned) : InField(u)
           /\ \A u \in UnitsOf(ret.spawned) \ UnitsOf(prev) :
                  u.position = F32Zero
    /\ \A t \in UnitTypes :
           /\ LET g == spawn_unit(game, t)
              IN  g.player_units[Len(g.player_units)].position = F32Zero
           /\ LET g == spawn_enemy(game, t)
              IN  g.enemy_units[Len(g.enemy_units)].position = F32FromInt(1000)

\* C15 witness: a tick of four seconds moved a unit that the stage clear
\* before had put at 400 with a knockback of -480 per second: it stands at
\* 0, where the clamp put it.
Wit_C15_PositionsInField ==
    /\ ret.op = "tick"
    /\ ret.delta = F32FromInt(4)
    /\ Len(prev.player_units) > 0
    /\ Len(game.player_units) > 0
    /\ prev.player_units[1].id = game.player_units[1].id
    /\ prev.player_units[1].position = F32FromInt(400)
    /\ prev.player_units[1].knockback_velocity = F32Neg(F32FromInt(480))
    /\ game.player_units[1].position = F32Zero
    /\ game.player_units[1].knockback_time = F32Zero

\* What a reset leaves of the state before it.
ResetKeeps(g, h) ==
    /\ h.stage = g.stage
    /\ h.coins = g.coins
    /\ h.upgrades = g.upgrades
    /\ h.max_player_base_hp = g.max_player_base_hp
    /\ h.max_enemy_base_hp = g.max_enemy_base_hp
    /\ h.click_count = g.click_count
    /\ h.type_count = g.type_count

\* What a reset makes of the battlefield.
FieldReset(h) ==
    /\ h.player_units = <<>>
    /\ h.enemy_units = <<>>
    /\ h.player_base_hp = h.max_player_base_hp
    /\ h.enemy_base_hp = h.max_enemy_base_hp
    /\ h.enemy_spawn_timer = F32Zero
    /\ h.stage_clear = FALSE

\* C18: the reset command, and a tick at whose end the player base is at or
\* below 0, empty both unit lists, put both bases at their maxima and zero
\* the spawn timer and the clear latch; the command leaves stage, coins,
\* upgrades, both maxima, click_count and type_count as they were, and so
\* does the reset of a tick that neither cleared the stage nor bought an
\* upgrade (coins being those the fights of the tick left).
Thm_C18_ResetFrame ==
    [][ /\ ret'.op = "reset_stage" =>
               FieldReset(game') /\ ResetKeeps(game, game')
        /\ (ret'.op = "tick" /\ ret'.defeat) =>
               /\ FieldReset(game')
               /\ (~ret'.clear /\ ~ret'.bought) =>
                      ResetKeeps([ret'.spawned EXCEPT !.coins = ret'.coins],
                                 game')
        /\ (ret'.op = "tick" /\ ~ret'.defeat) =>
               F32Less(F32Zero, game'.player_base_hp)
      ]_vars

\* C18 witness: the reset command given with a unit of each side on the
\* field and 8000 coins: the field is empty and the coins are still there.
Wit_C18_ResetFrame ==
    /\ ret.op = "reset_stage"
    /\ Len(prev.player_units) = 1
    /\ Len(prev.enemy_units) = 1
    /\ prev.coins = 8000
    /\ game.coins = 8000
    /\ game.player_units = <<>>
    /\ game.enemy_units = <<>>
    /\ saved = game

\* max(10, 20 * s / 2) in integers
ClearReward(s) == IF (20 * s) \div 2 > 10 THEN (20 * s) \div 2 ELSE 10

\* C19: a tick whose fights end with enemy_base_hp <= 0 clears the stage s:
\* it adds max(10, 20*s/2) coins to those the fights left (an automatic
\* purchase later in the tick aside), makes the stage s + 1, puts
\* enemy_base_hp and max_enemy_base_hp at 500 * (1 + s * 0.5), empties
\* enemy_units and zeroes the spawn timer; a tick whose fights end with
\* enemy_base_hp > 0 leaves stage and max_enemy_base_hp as they were.
Thm_C19_StageClear ==
    [][ ret'.op = "tick" =>
            LET s == game.stage
                down == F32LessEq(ret'.enemy_base_hp, F32Zero)
            IN  /\ ret'.clear <=> down
                /\ down =>
                       /\ game'.stage = s + 1
                       /\ game'.enemy_base_hp = F32FromInt(500 + 250 * s)
                       /\ game'.max_enemy_base_hp = F32FromInt(500 + 250 * s)
                       /\ game'.enemy_units = <<>>
                       /\ game'.enemy_spawn_timer = F32Zero
                       /\ ~ret'.bought =>
                              game'.coins = ret'.coins + ClearReward(s)
                /\ ~down =>
                       /\ game'.stage = s
                       /\ game'.max_enemy_base_hp = game.max_enemy_base_hp
      ]_vars

\* C19 witness: a tick that cleared stage 2: the stage is 3, the award was
\* 20 coins, and the enemy base stands at 1000 of 1000 with no enemy unit.
Wit_C19_StageClear ==
    /\ ret.op = "tick"
    /\ ret.clear
    /\ F32LessEq(ret.enemy_base_hp, F32Zero)
    /\ prev.stage = 2
    /\ game.stage = 3
    /\ game.coins = prev.coins + 20
    /\ game.enemy_base_hp = F32FromInt(1000)
    /\ game.max_enemy_base_hp = F32FromInt(1000)
    /\ game.enemy_units = <<>>
    /\ saved.stage = 3

\* C16: unit ids are never reused: each unit created receives an id greater
\* than every id given to a unit before it, over spawns, deaths, clears,
\* resets and restarts of the process (issued lists the ids in the order
\* they were given).
Cex_C16_IdsNeverReused ==
    \A i, j \in 1..Len(issued) : i < j => issued[i] < issued[j]

\* C14: the stage advances only in a tick whose fights drove enemy_base_hp
\* to 0 or below, and only a player unit takes hp from the enemy base; so
\* with no player unit ever spawned and auto-buy off, after any number of
\* ticks the stage is 1, the coins are 0 and the enemy base is whole, also
\* after the player base fell and the stage was reset.
Thm_C14_IdleStaysAtStageOne ==
    /\ game.stage = 1
    /\ game.coins = 0
    /\ game.player_units = <<>>
    /\ game.enemy_base_hp = F32FromInt(500)
    /\ game.max_enemy_base_hp = F32FromInt(500)
    /\ ret.op = "tick" =>
           /\ ~ret.clear
           /\ ret.enemy_base_hp = F32FromInt(500)
           /\ ret.coins = 0

\* C14 witness: the second idle tick, in which an enemy unit brought the
\* player base down and the stage was reset: the base is whole again, the
\* stage is 1 and there are no coins.
Wit_C14_IdleStaysAtStageOne ==
    /\ ret.op = "tick"
    /\ ret.defeat
    /\ ticks = 2
    /\ Len(prev.enemy_units) > 0
    /\ game.enemy_units = <<>>
    /\ game.player_base_hp = game.max_player_base_hp
    /\ game.stage = 1
    /\ game.coins = 0
    /\ saved.enemy_units = <<>>
    /\ saved.stage = 1

\* C17: the stage never decreases: over ticks, purchases, resets, defeats,
\* registrations and pulls, the stage of each state is at least the stage
\* of the state before it.
Cex_C17_StageNeverDecreases ==
    [][game'.stage >= game.stage]_vars

(***************************************************************************)
(* Properties of the lock.                                                 *)
(***************************************************************************)
\* C20: the lock on GameState is never held by a command while its network
\* request is in flight: a command holds it exactly while it exports or
\* imports progress, so while a request is pending the lock is free or in
\* the hands of the game loop.
Thm_C20_NoLockAcrossCall ==
    /\ pc.at = "awaiting" => lock \in {Free, "loop"}
    /\ lock = "command" <=> pc.at \in {"exporting", "importing"}
    /\ pc.at \in {"exported", "received"} => lock \in {Free, "loop"}

\* C20 witness: the request of a push is in flight, with the progress
\* exported under the lock before, and the game loop, already through one
\* iteration, holds the lock again.
Wit_C20_NoLockAcrossCall ==
    /\ pc.op = "mp_update_state"
    /\ pc.at = "awaiting"
    /\ pc.body # None
    /\ lock = "loop"
    /\ ticks = 1

(***************************************************************************)
(* Properties of the game loop and the lock.                               *)
(***************************************************************************)
\* C21: in every iteration of the game loop the lock on GameState is
\* released before the game-update event is emitted: when the loop thread
\* has run update and is about to emit, the lock is free.
Cex_C21_EmitWithoutLock ==
    loop.at = "updated" => lock = Free

\* C22: no snapshot write happens while the lock on GameState is held: in
\* every step of a tick, a purchase or a reset that writes the snapshot
\* file, the lock is free when the step begins.
Cex_C22_WriteWithoutLock ==
    [][saved' # saved => lock = Free]_vars

(***************************************************************************)
(* Properties of persistence.                                              *)
(***************************************************************************)
\* The snapshot file holds GameState without its save_timer.
Persisted(g) == [g EXCEPT !.save_timer = F32Zero]

\* C23: every state-changing command writes a snapshot of the state it
\* leaves before it returns: after a successful start_auto_buy the snapshot
\* file holds the GameState the command left.
Cex_C23_CommandPersists ==
    (ret.op = "start_auto_buy" /\ ret.res = "Ok")
        => Persisted(saved) = Persisted(game)

(***************************************************************************)
(* Properties of the import.                                               *)
(***************************************************************************)
\* GameState h is g but for the fields of PlayerProgress.
OnlyProgressChanged(g, h) ==
    [h EXCEPT !.stage = g.stage,
              !.coins = g.coins,
              !.upgrades = g.upgrades,
              !.max_player_base_hp = g.max_player_base_hp,
              !.max_enemy_base_hp = g.max_enemy_base_hp] = g

\* C24: importing a PlayerProgress into a live GameState changes only
\* stage, coins, the upgrade levels and the two hp caps, which take the
\* imported values; player_units, enemy_units, the current hp of both
\* bases, click_count, type_count and the auto-buy configuration stay as
\* they were, in a register and in a pull alike.
Thm_C24_ImportFrame ==
    [][ /\ OnlyProgressChanged(game, game')
        /\ game'.player_units = game.player_units
        /\ game'.enemy_units = game.enemy_units
        /\ game'.player_base_hp = game.player_base_hp
        /\ game'.enemy_base_hp = game.enemy_base_hp
        /\ game'.click_count = game.click_count
        /\ game'.type_count = game.type_count
        /\ game'.auto_buy = game.auto_buy
        /\ (\/ (Completed("mp_register_player") /\ ret'.res = "Ok")
            \/ (Completed("mp_pull_state") /\ ret'.res = "Ok(true)")) =>
               /\ game'.stage = ret'.body.progress.stage
               /\ game'.coins = ret'.body.progress.coins
               /\ game'.upgrades = ret'.body.progress.upgrades
               /\ game'.max_player_base_hp
                      = ret'.body.progress.max_player_base_hp
               /\ game'.max_enemy_base_hp
                      = ret'.body.progress.max_enemy_base_hp
      ]_vars

\* C24 witness: a pull has imported what another device pushed into the
\* GameState of a battle under way: coins went from 0 to 10 and stage from
\* 1 to 2, while the units, the hit bases and the counters are those of
\* before.
Wit_C24_ImportFrame ==
    /\ ret.op = "mp_pull_state"
    /\ ret.res = "Ok(true)"
    /\ prev.stage = 1
    /\ prev.coins = 0
    /\ game.stage = 2
    /\ game.coins = 10
    /\ Len(game.player_units) = 1
    /\ Len(game.enemy_units) = 1
    /\ game.player_base_hp = F32FromInt(996)
    /\ game.enemy_base_hp = F32FromInt(700)
    /\ game.max_enemy_base_hp = F32FromInt(750)
    /\ game.click_count = 3
    /\ game.type_count = 5
    /\ game.auto_buy.enabled

(***************************************************************************)
(* Properties of the inputs.                                               *)
(***************************************************************************)
\* The inputs the loop thread has taken and not yet turned into units.
Taken == IF loop.at \in {"consumed", "locked"} THEN loop ELSE Sleeping

\* The number of units of a type in a list.
CountType(units, unit_type) ==
    Cardinality({i \in 1..Len(units) : units[i].unit_type = unit_type})

\* No input the hook recorded is lost or counted twice: each is in the
\* counter, in the hands of the loop thread, or counted in GameState.
InputsKept ==
    /\ pressed.types = counter.types + Taken.types + game.type_count
    /\ pressed.clicks = counter.clicks + Taken.clicks + game.click_count

\* The iteration that just ran update spawned one Small unit and counted
\* one in type_count for each key press taken, one Medium unit and one in
\* click_count for each click taken.
InputsSpawned ==
    (loop.at = "updated") =>
        /\ ret.op = "tick"
        /\ CountType(ret.spawned.player_units, "Small")
               = CountType(prev.player_units, "Small") + loop.types
        /\ CountType(ret.spawned.player_units, "Medium")
               = CountType(prev.player_units, "Medium") + loop.clicks
        /\ ret.spawned.type_count = prev.type_count + loop.types
        /\ ret.spawned.click_count = prev.click_count + loop.clicks
        /\ game.type_count = ret.spawned.type_count
        /\ game.click_count = ret.spawned.click_count

\* C25: under every interleaving of the hook thread and the game loop no
\* input is lost or counted twice: every key press recorded ends in exactly
\* one Small unit spawned and one increment of type_count, every click in
\* one Medium unit and one increment of click_count, and consume_inputs
\* hands over the counts and zeroes them in one step.
Thm_C25_InputsCounted ==
    [][ /\ InputsKept'
        /\ InputsSpawned'
        /\ (loop.at = "sleep" /\ loop'.at = "consumed") =>
               /\ loop'.types = counter.types
               /\ loop'.clicks = counter.clicks
               /\ counter' = NoInputs
      ]_vars

\* C25 witness: the loop thread took a key press and, while it held the lock
\* and ran update, the hook recorded a click: the key press is a Small unit
\* and counted, the click waits in the counter for the next iteration.
Wit_C25_InputsCounted ==
    /\ loop.at = "updated"
    /\ loop.types = 1
    /\ loop.clicks = 0
    /\ counter.clicks = 1
    /\ pressed = [clicks |-> 1, types |-> 1]
    /\ game.type_count = 1
    /\ game.click_count = 0
    /\ CountType(ret.spawned.player_units, "Small") = 1

(***************************************************************************)
(* Properties of failed purchases.                                         *)
(***************************************************************************)
\* C26: a purchase_upgrade call that fails, for want of coins or for an
\* invalid pair, leaves coins and every upgrade level as they were, and
\* coins go down only together with a rise by 10 of exactly one level.
Cex_C26_FailedPurchaseKeeps ==
    IsPurchase =>
        /\ (ret.res # OkTrue) =>
               /\ game.coins = prev.coins
               /\ game.upgrades = prev.upgrades
        /\ (game.coins < prev.coins) =>
               \E c \in Counters :
                   /\ game.upgrades[c] = prev.upgrades[c] + 10
                   /\ \A d \in Counters \ {c} :
                          game.upgrades[d] = prev.upgrades[d]

(***************************************************************************)
(* Properties of the kill reward.                                          *)
(***************************************************************************)
\* C27: the death of an enemy unit pays the kill reward exactly once: the
\* coins the fights of a tick add are the reward times the number of enemy
\* units the tick removes, however many player units attacked each.
Cex_C27_OneRewardPerKill ==
    (ret.op = "tick") =>
        ret.coins = ret.spawned.coins + ret.removed * KillCoins(ret.spawned)

(***************************************************************************)
(* Properties of the reconciliation between devices.                       *)
(***************************************************************************)
\* C28: what another device pushed after this device's last register, push
\* or pull is applied by this device's next successful pull, also within
\* the same second of the server's clock.  Here GameState changes only by
\* imports and the profile only by pushes, so a successful pull fetches
\* progress other than the local one exactly when another device pushed
\* since: such a pull returns true and leaves the fetched progress.
Cex_C28_PullSeesPush ==
    [][ (Completed("mp_pull_state")
             /\ ret'.body.progress # export_progress(game)) =>
            /\ ret'.res = "Ok(true)"
            /\ export_progress(game') = ret'.body.progress
      ]_vars

\* C29: the last-seen remote timestamp never decreases: once recorded it
\* stays recorded, and every step leaves it at least what it was.
Cex_C29_TimestampMonotonic ==
    [][ (last_remote_update # None) =>
            /\ last_remote_update' # None
            /\ Get(last_remote_update') >= Get(last_remote_update)
      ]_vars

\* C30: whenever no request is being handled or answered, the file stored
\* for each profile id equals that profile's value in memory.
Cex_C30_DiskAgreesWithMemory ==
    (pending = {} /\ inflight = {}) =>
        \A id \in DOMAIN players :
            id \in DOMAIN files /\ files[id] = players[id]

\* C31: the name index maps the trimmed, lowercased name of every stored
\* profile to that profile's id, every index entry points to a stored
\* profile, no two profiles share a lowercased name, and no step removes a
\* profile.
IndexConsistent(ps, idx) ==
    /\ \A id \in DOMAIN ps :
           /\ ps[id].player_id = id
           /\ ToLower(Trim(ps[id].player_name)) \in DOMAIN idx
           /\ idx[ToLower(Trim(ps[id].player_name))] = id
    /\ \A k \in DOMAIN idx : idx[k] \in DOMAIN ps
    /\ \A a \in DOMAIN ps : \A b \in DOMAIN ps :
           ToLower(ps[a].player_name) = ToLower(ps[b].player_name) => a = b

Thm_C31_IndexConsistent ==
    [][ /\ IndexConsistent(players', name_index')
        /\ DOMAIN players \subseteq DOMAIN players'
        /\ \A id \in DOMAIN players :
               players'[id].player_name = players[id].player_name
      ]_vars

\* A registration answered with the profile another registration, of a name
\* differing in case or whitespace, created and has not yet written to its
\* file: one profile for the two, beside a profile of another name.
Wit_C31_IndexConsistent ==
    /\ ret.op = "other"
    /\ ret.handler = "register_player"
    /\ ret.status = 200
    /\ ret.body.message = MsgWelcomeBack
    /\ ret.arg # ret.body.player_name
    /\ \E w \in pending : w.profile.player_id = ret.body.player_id
    /\ Cardinality(DOMAIN players) = 2
    /\ Cardinality(DOMAIN name_index) = 2

\* C32: after every tick both bases stand: each base's hit points are above
\* zero and at most its cap, and the stage-clear latch is false.
BasesStand(g) ==
    /\ F32Less(F32Zero, g.player_base_hp)
    /\ F32LessEq(g.player_base_hp, g.max_player_base_hp)
    /\ F32Less(F32Zero, g.enemy_base_hp)
    /\ F32LessEq(g.enemy_base_hp, g.max_enemy_base_hp)
    /\ ~g.stage_clear

Thm_C32_BasesStand == (ret.op = "tick") => BasesStand(game)

\* A tick in which the player base, hit before, fell and the stage was reset.
Wit_C32_BasesStand ==
    /\ ret.op = "tick"
    /\ ret.defeat
    /\ F32Less(prev.player_base_hp, prev.max_player_base_hp)
    /\ game.player_base_hp = game.max_player_base_hp

\* C33: the units of both lists together have pairwise distinct ids and the
\* next-unit-id cursor is above every id present, so that a target_id names
\* at most one unit; also right after a snapshot was loaded.
IdsResolve(g) ==
    LET units == g.player_units \o g.enemy_units
    IN  /\ \A i \in 1..Len(units) : \A j \in 1..Len(units) :
               units[i].id = units[j].id => i = j
        /\ \A i \in 1..Len(units) : units[i].id < g.next_unit_id

Thm_C34_AutoBuyExpiry ==
    [][ (ret'.op = "tick") =>
            LET a == game.auto_buy
                pre == ret'.coins + IF ret'.clear
                                    THEN StageReward(ret'.spawned.stage) ELSE 0
                cost == get_cost(game.upgrades, a.upgrade_type, a.unit_type)
                crossing ==
                    /\ F32Less(F32Zero, a.remaining_time)
                    /\ F32LessEq(F32Sub(a.remaining_time, ret'.delta), F32Zero)
            IN  /\ game'.auto_buy.enabled =>
                       F32Less(F32Zero, game'.auto_buy.remaining_time)
                /\ crossing =>
                       /\ game'.auto_buy.remaining_time = F32Zero
                       /\ ~game'.auto_buy.enabled
                       /\ ~ret'.bought
                /\ (~a.enabled \/ ~F32Less(F32Zero, a.remaining_time)) =>
                       /\ ~ret'.bought
                       /\ ~game'.auto_buy.enabled
                /\ ret'.bought =>
                       /\ pre >= cost
                       /\ game'.coins = pre - cost
                       /\ game'.upgrades =
                              [game.upgrades EXCEPT
                                  ![Counter(a.upgrade_type, a.unit_type)] = @ + 10]
                /\ ~ret'.bought =>
                       /\ game'.coins = pre
                       /\ game'.upgrades = game.upgrades
      ]_vars

\* The tick in which the time ran out, after a tick that bought: the auto-buy
\* was enabled with time left, the coins would have paid another level, and
\* nothing was bought.
Wit_C34_AutoBuyExpiry ==
    /\ ret.op = "tick"
    /\ ~ret.bought
    /\ prev.auto_buy.enabled
    /\ F32Less(F32Zero, prev.auto_buy.remaining_time)
    /\ ~game.auto_buy.enabled
    /\ game.auto_buy.remaining_time = F32Zero
    /\ game.upgrades.small_hp = 10
    /\ game.coins >= get_cost(game.upgrades, "hp", "small")

\* C35: in a unit's turn a target that is not in the opposing list is
\* dropped; a unit then without target takes the opposing unit nearest to
\* it, the first in list order among equally near ones, and none if the
\* opposing list is empty; a unit whose target is in the opposing list keeps
\* it, nearer opponents or not; and the turn takes hit points from no unit
\* but the target within 10.0 and moves the unit towards the target, or
\* towards the opposing base without one.
OwnUnits(g, side) == IF side = "player" THEN g.player_units ELSE g.enemy_units

OpposingUnits(g, side) ==
    IF side = "player" THEN g.enemy_units ELSE g.player_units

\* j is the first of the units nearest to position
FirstNearest(units, j, position) ==
    /\ \A k \in 1..Len(units) :
           F32LessEq(Distance(units[j], position), Distance(units[k], position))
    /\ \A k \in 1..(j - 1) :
           Distance(units[k], position) # Distance(units[j], position)

\* u took its turn and is now v, the opposing list was opp and is now left
TurnAimsWell(side, u, v, opp, left) ==
    LET kept == /\ u.target_id # None
                /\ \E j \in 1..Len(opp) : opp[j].id = Get(u.target_id)
    IN  /\ kept => v.target_id = u.target_id
        /\ (~kept /\ opp = <<>>) => v.target_id = None
        /\ (~kept /\ opp # <<>>) =>
               \E j \in 1..Len(opp) :
                   /\ v.target_id = Some(opp[j].id)
                   /\ FirstNearest(opp, j, u.position)
        /\ Len(left) = Len(opp)
        /\ \A j \in 1..Len(opp) :
               IF v.target_id = Some(opp[j].id)
               THEN IF F32LessEq(Distance(opp[j], u.position), F32FromInt(10))
                    THEN /\ v.position = u.position
                         /\ F32Less(left[j].hp, opp[j].hp)
                         /\ left[j] = [opp[j] EXCEPT !.hp = left[j].hp]
                    ELSE /\ left[j] = opp[j]
                         /\ F32Less(Distance(opp[j], v.position),
                                    Distance(opp[j], u.position))
               ELSE left[j] = opp[j]
        /\ v.target_id = None =>
               IF side = "player" THEN F32Less(u.position, v.position)
               ELSE F32Less(v.position, u.position)

Thm_C35_TargetSelection ==
    [][ (ret'.op = "turn") =>
            TurnAimsWell(ret'.side,
                         OwnUnits(game, ret'.side)[ret'.index],
                         OwnUnits(game', ret'.side)[ret'.index],
                         OpposingUnits(game, ret'.side),
                         OpposingUnits(game', ret'.side))
      ]_vars

\* A player unit whose target was gone took, of two enemies equally near on
\* either side of it, the first of the list.
Wit_C35_TargetSelection ==
    /\ ret.op = "turn"
    /\ ret.side = "player"
    /\ ret.index = 1
    /\ prev.player_units[1].target_id = Some(9)
    /\ Len(game.enemy_units) = 2
    /\ game.enemy_units[1].position = F32FromInt(510)
    /\ game.enemy_units[2].position = F32FromInt(490)
    /\ game.player_units[1].target_id = Some(3)

====
